---------------------------- MODULE Spec2Model ----------------------------
(***************************************************************************)
(* The storage engine of asciii (src/src/storage/mod.rs): directory        *)
(* layout, project creation, and the archive / unarchive state machine,    *)
(* over an explicit model of the file system.                              *)
(*                                                                         *)
(* A string is a sequence of one-character strings, a path is a sequence   *)
(* of components (strings); an absolute path starts with the component     *)
(* "/".  The file system is a record [dirs, files]: the set of directory   *)
(* paths and the set of files [path, data].                                *)
(***************************************************************************)
EXTENDS Integers, Sequences, FiniteSets, TLC

VARIABLES
    fs,          \* the file system: [dirs |-> set of paths, files |-> set of [path, data]]
    storage,     \* the Storage value (mod.rs:58-77), or NoStorage before construction
    next_id,     \* identity given to the next record file that is created
    result,      \* the call that has just returned (operation, arguments, value), or Idle
    last_archive \* the successful archive_project call the caller saw last, if no call came after

vars == <<fs, storage, next_id, result, last_archive>>

-----------------------------------------------------------------------------
(* Bounds of the model. *)

\* Number of record files that create_project may create in one behaviour.
MaxProjects == 2

-----------------------------------------------------------------------------
(* Strings. *)

Slash == <<"/">>
s_srv       == <<"s","r","v">>
s_db        == <<"d","b">>
s_work      == <<"w","o","r","k">>
s_arch      == <<"a","r","c","h">>
s_tmpl      == <<"t","m","p","l">>
s_extras    == <<"e","x","t","r","a","s">>
s_yml       == <<"y","m","l">>
s_tyml      == <<"t","y","m","l">>
s_std       == <<"s","t","d">>
s_misc      == <<"m","i","s","c">>
s_zed       == <<"z","e","d">>
s_R007      == <<"R","0","0","7">>
s_foo       == <<"f","o","o">>
s_Foo       == <<"F","o","o">>
s_birthday_party == <<"b","i","r","t","h","d","a","y","-","p","a","r","t","y">>
s_Birthday_Party == <<"B","i","r","t","h","d","a","y"," ","P","a","r","t","y">>
s_Party     == <<"P","a","r","t","y">>
s_o         == <<"o">>
s_N1        == <<"N","1">>

Digits == <<"0","1","2","3","4","5","6","7","8","9">>
IsDigit(c) == \E i \in 1..10 : Digits[i] = c
DigitVal(c) == (CHOOSE i \in 1..10 : Digits[i] = c) - 1

LowerOf == [A |-> "a", B |-> "b", C |-> "c", D |-> "d", E |-> "e", F |-> "f",
            G |-> "g", H |-> "h", I |-> "i", J |-> "j", K |-> "k", L |-> "l",
            M |-> "m", N |-> "n", O |-> "o", P |-> "p", Q |-> "q", R |-> "r",
            S |-> "s", T |-> "t", U |-> "u", V |-> "v", W |-> "w", X |-> "x",
            Y |-> "y", Z |-> "z"]
IsUpper(c) == c \in DOMAIN LowerOf
IsLower(c) == \E u \in DOMAIN LowerOf : LowerOf[u] = c
to_lower(c) == IF IsUpper(c) THEN LowerOf[c] ELSE c

\* Option<T>: None, or Some(v).
None == [some |-> FALSE, v |-> <<>>]
\* None of an Option<i32>.
NoneInt == [some |-> FALSE, v |-> 0]
Some(x) == [some |-> TRUE, v |-> x]

\* Result<T, Error>.
Ok(x) == [ok |-> TRUE, val |-> x, err |-> "none"]
Err(e) == [ok |-> FALSE, val |-> <<>>, err |-> e]

\* `let x = value;` followed by the code F that uses x.
Bind(value, F(_)) == F(value)

\* i32::to_string: decimal digits, with a leading '-' for a negative number.
RECURSIVE nat_to_string(_)
nat_to_string(n) ==
    IF n < 10 THEN <<Digits[n + 1]>>
    ELSE nat_to_string(n \div 10) \o <<Digits[(n % 10) + 1]>>

to_string(n) == IF n < 0 THEN <<"-">> \o nat_to_string(0 - n) ELSE nat_to_string(n)

RECURSIVE digits_value(_)
digits_value(s) ==
    IF Len(s) = 0 THEN 0
    ELSE 10 * digits_value(SubSeq(s, 1, Len(s) - 1)) + DigitVal(s[Len(s)])

I32Max == 2147483647

\* str::parse::<i32>: an optional sign, then one or more digits, in range.
parse_i32(s) ==
    LET signed == Len(s) > 0 /\ s[1] \in {"+", "-"}
        body   == IF signed THEN SubSeq(s, 2, Len(s)) ELSE s
    IN  IF Len(body) = 0 \/ \E i \in 1..Len(body) : ~IsDigit(body[i]) THEN NoneInt
        ELSE LET v == digits_value(body)
                 n == IF signed /\ s[1] = "-" THEN 0 - v ELSE v
             IN  IF n > I32Max \/ n < (0 - I32Max) - 1 THEN NoneInt ELSE Some(n)

\* Position of the last '.' of a file name, 0 when there is none.
last_dot(name) ==
    LET dots == {i \in 1..Len(name) : name[i] = "."}
    IN  IF dots = {} THEN 0 ELSE CHOOSE i \in dots : \A j \in dots : j <= i

-----------------------------------------------------------------------------
(* Paths (std::path). *)

is_absolute(p) == Len(p) > 0 /\ p[1] = Slash

\* Path::join: an absolute argument replaces the path.
join(p, q) == IF is_absolute(q) THEN q ELSE p \o q

\* Path::parent
parent(p) ==
    IF Len(p) = 0 \/ p = <<Slash>> THEN None ELSE Some(SubSeq(p, 1, Len(p) - 1))

\* Path::file_name
file_name(p) ==
    IF Len(p) = 0 \/ p = <<Slash>> THEN None ELSE Some(p[Len(p)])

\* Path::file_stem: the name up to its last '.', the whole name when the only
\* '.' is the leading one or there is none.
file_stem(p) ==
    LET f == file_name(p)
    IN  IF ~f.some THEN None
        ELSE LET d == last_dot(f.v)
             IN  IF d <= 1 THEN f ELSE Some(SubSeq(f.v, 1, d - 1))

\* Path::extension
extension(p) ==
    LET f == file_name(p)
    IN  IF ~f.some THEN None
        ELSE LET d == last_dot(f.v)
             IN  IF d <= 1 THEN None ELSE Some(SubSeq(f.v, d + 1, Len(f.v)))

\* Path::starts_with: base is a component-wise prefix of p.
starts_with(p, base) ==
    Len(base) <= Len(p) /\ SubSeq(p, 1, Len(base)) = base

-----------------------------------------------------------------------------
(* The file system (std::fs), with the semantics of a POSIX file system. *)

\* What an operation leaves behind and what it returns.
Out(f, r) == [fs |-> f, ret |-> r, trace |-> <<>>]

\* An event of a call: a fs::rename that succeeded ("rename", <<from, to>>),
\* a Repository::add ("add", its paths, whether git succeeded), or an
\* evaluation of a confirmation closure ("confirm", no paths, its answer).
Event(kind, paths, success) == [kind |-> kind, paths |-> paths, success |-> success]

\* The same as Out, with the events of the call, in order.
OutGit(f, r, trace) == [fs |-> f, ret |-> r, trace |-> trace]

\* Path::exists
exists(f, p) == p \in f.dirs \/ \E x \in f.files : x.path = p

is_dir(f, p) == p \in f.dirs

\* The entries directly inside directory p.
child_of(q, p) == Len(q) = Len(p) + 1 /\ SubSeq(q, 1, Len(p)) = p

children(f, p) ==
    {d \in f.dirs : child_of(d, p)} \cup {x.path : x \in {y \in f.files : child_of(y.path, p)}}

\* Everything at or below p.
subtree_dirs(f, p) == {d \in f.dirs : starts_with(d, p)}
subtree_files(f, p) == {x \in f.files : starts_with(x.path, p)}

\* The content of the file at p.
read_file(f, p) == (CHOOSE x \in f.files : x.path = p).data

\* fs::create_dir: the parent has to be a directory and the path has to be free.
create_dir(f, p) ==
    IF exists(f, p) \/ ~parent(p).some \/ ~is_dir(f, parent(p).v) THEN Out(f, Err("Io"))
    ELSE Out([f EXCEPT !.dirs = @ \cup {p}], Ok(p))

\* p moved from below `from` to below `to`.
rebase(p, from, to) == to \o SubSeq(p, Len(from) + 1, Len(p))

\* A rename that puts the directory in the place of whatever is at the
\* target.
rename_replacing(f, from, to) ==
    IF ~is_dir(f, from) THEN Out(f, Err("Io"))
    ELSE IF from = to THEN OutGit(f, Ok(to), <<Event("rename", <<from, to>>, TRUE)>>)
    ELSE IF starts_with(to, from) \/ starts_with(from, to) THEN Out(f, Err("Io"))
    ELSE IF ~parent(to).some \/ ~is_dir(f, parent(to).v) THEN Out(f, Err("Io"))
    ELSE OutGit([dirs  |-> (f.dirs \ (subtree_dirs(f, from) \cup subtree_dirs(f, to)))
                               \cup {rebase(d, from, to) : d \in subtree_dirs(f, from)},
                 files |-> {x \in f.files \ subtree_files(f, from) :
                               ~starts_with(x.path, to)}
                               \cup {[path |-> rebase(x.path, from, to), data |-> x.data] :
                                         x \in subtree_files(f, from)}],
                Ok(to), <<Event("rename", <<from, to>>, TRUE)>>)

\* fs::rename of a directory (rename(2)): the source has to exist, the target's
\* parent has to be a directory, the target may not lie inside the source, and a
\* target that exists has to be an empty directory, which is then replaced.
\* Everything below the source moves with it.
rename(f, from, to) ==
    IF ~is_dir(f, from) THEN Out(f, Err("Io"))
    ELSE IF from = to THEN OutGit(f, Ok(to), <<Event("rename", <<from, to>>, TRUE)>>)
    ELSE IF starts_with(to, from) \/ starts_with(from, to) THEN Out(f, Err("Io"))
    ELSE IF ~parent(to).some \/ ~is_dir(f, parent(to).v) THEN Out(f, Err("Io"))
    ELSE IF exists(f, to) /\ (~is_dir(f, to) \/ children(f, to) # {}) THEN Out(f, Err("Io"))
    ELSE OutGit([dirs  |-> (f.dirs \ subtree_dirs(f, from))
                               \cup {rebase(d, from, to) : d \in subtree_dirs(f, from)},
                 files |-> (f.files \ subtree_files(f, from))
                               \cup {[path |-> rebase(x.path, from, to), data |-> x.data] :
                                         x \in subtree_files(f, from)}],
                Ok(to), <<Event("rename", <<from, to>>, TRUE)>>)

\* fs::copy of a freshly written file with content `data` to path p.
copy(f, data, p) ==
    IF ~parent(p).some \/ ~is_dir(f, parent(p).v) \/ is_dir(f, p) THEN Out(f, Err("Io"))
    ELSE Out([f EXCEPT !.files = {x \in @ : x.path # p} \cup {[path |-> p, data |-> data]}],
             Ok(p))

\* fs::remove_dir_all
remove_dir_all(f, p) ==
    IF ~is_dir(f, p) THEN Out(f, Err("Io"))
    ELSE Out([dirs |-> f.dirs \ subtree_dirs(f, p), files |-> f.files \ subtree_files(f, p)],
             Ok(p))

\* mod.rs:132-139
is_dot_file(p) ==
    LET n == file_name(p) IN n.some /\ Len(n.v) > 0 /\ n.v[1] = "."

\* mod.rs:151-161: the entries of a directory that are no dot files.  The
\* order of fs::read_dir is unspecified: the result is the set of entries.
list_path_content(f, p) ==
    IF ~is_dir(f, p) THEN Err("Io")
    ELSE Ok({c \in children(f, p) : ~is_dot_file(c)})

-----------------------------------------------------------------------------
(* Construction and directory layout (mod.rs:227-359). *)

\* Repository::try_new(root), whose code is in storage/repo.rs: it opens the
\* repository at root and can fail; `opens` is its outcome.
Repository_try_new(root, opens) == IF opens THEN Ok(TRUE) ELSE Err("Git")

\* mod.rs:230-246
try_new(root, working, archive, template) ==
    IF is_absolute(root)
    THEN Ok([root       |-> root,
             working    |-> join(root, working),
             archive    |-> join(root, archive),
             templates  |-> join(root, template),
             extras     |-> join(root, <<s_extras>>),
             repository |-> FALSE])
    ELSE Err("StoragePathNotAbsolute")

\* mod.rs:249-255.  The fields of a struct expression are evaluated in the
\* order written: the repository is opened before try_new looks at the root.
try_new_with_git(root, working, archive, template, opens) ==
    LET repo == Repository_try_new(root, opens)
    IN  IF ~repo.ok THEN Err(repo.err)
        ELSE LET base == try_new(root, working, archive, template)
             IN  IF ~base.ok THEN base
                 ELSE Ok([base.val EXCEPT !.repository = repo.val])

\* health_check that does not look at the templates directory.
health_check_without_templates(self, f) ==
    IF exists(f, self.root) /\ exists(f, self.working) /\ exists(f, self.archive)
    THEN Ok(<<>>)
    ELSE Err("InvalidDirStructure")

\* mod.rs:258-272
health_check(self, f) ==
    IF exists(f, self.root) /\ exists(f, self.working)
           /\ exists(f, self.archive) /\ exists(f, self.templates)
    THEN Ok(<<>>)
    ELSE Err("InvalidDirStructure")

\* fs::create_dir(p)? without the look whether p exists.
create_missing_unconditionally(prev, p) ==
    IF ~prev.ret.ok THEN prev ELSE create_dir(prev.fs, p)

\* `if !p.exists() { fs::create_dir(p)?; }` after the steps before it went well.
create_missing(prev, p) ==
    IF ~prev.ret.ok \/ exists(prev.fs, p) THEN prev ELSE create_dir(prev.fs, p)

\* mod.rs:330-340
create_dirs(self, f) ==
    IF ~is_absolute(self.root) THEN Out(f, Err("StoragePathNotAbsolute"))
    ELSE LET r == create_missing(Out(f, Ok(<<>>)), self.root)
             w == create_missing(r, self.working)
             a == create_missing(w, self.archive)
             t == create_missing(a, self.templates)
         IN  IF t.ret.ok THEN Out(t.fs, Ok(<<>>)) ELSE t

\* create_archive that makes the directory without a look whether it exists.
create_archive_unconditionally(self, f, year) ==
    IF ~exists(f, self.archive) THEN Out(f, Err("AssertionFailed"))
    ELSE LET archive == join(self.archive, <<to_string(year)>>)
             c == create_dir(f, archive)
         IN  IF c.ret.ok THEN Out(c.fs, Ok(archive)) ELSE c

\* create_archive whose assertion is about the archive of the year.
create_archive_asserting_year(self, f, year) ==
    IF ~exists(f, join(self.archive, <<to_string(year)>>)) THEN Out(f, Err("AssertionFailed"))
    ELSE Out(f, Ok(join(self.archive, <<to_string(year)>>)))

\* mod.rs:350-359.  The assert! at 352 panics when the archive root is
\* missing: the failed assertion.
create_archive(self, f, year) ==
    IF ~exists(f, self.archive) THEN Out(f, Err("AssertionFailed"))
    ELSE LET archive == join(self.archive, <<to_string(year)>>)
         IN  IF exists(f, self.archive) /\ ~exists(f, archive)
             THEN LET c == create_dir(f, archive)
                  IN  IF c.ret.ok THEN Out(c.fs, Ok(archive)) ELSE c
             ELSE Out(f, Ok(archive))

-----------------------------------------------------------------------------
(* The record capability (trait Storable, storage/storable.rs) as the       *)
(* engine consumes it.  A project is [file |-> path of its record file,    *)
(* data |-> content of that file, git_status |-> the status attached].     *)

\* Storable::file_extension
file_extension == s_yml

\* CONFIG "extensions/project_template" (mod.rs:378)
template_extension == s_tyml

\* Storable::dir: the directory that holds the record file.
dir(project) == parent(project.file).v

\* Storable::ident: the slug of the record, the stem of its record file.
ident(project) == file_stem(project.file).v

\* Storable::prefix
prefix(project) == project.data.prefix

\* Storable::year
year_of(project) == project.data.year

\* Storable::is_ready_for_archive
is_ready_for_archive(project) == project.data.ready

\* Storable::index
index(project) == project.data.index

\* What a record file can hold, as far as the engine can tell: a fresh
\* project (no invoice number, no date, not ready), and an invoiced one.
Fills ==
    { [prefix |-> None, year |-> NoneInt, ready |-> FALSE, index |-> None],
      [prefix |-> Some(s_R007), year |-> Some(2023), ready |-> TRUE, index |-> Some(s_R007)] }

\* The content of record file number id, filled with `fill`.
record_data(id, fill) ==
    [id |-> id, prefix |-> fill.prefix, year |-> fill.year,
     ready |-> fill.ready, index |-> fill.index]

\* The content of a template file.
template_data == record_data(0, CHOOSE x \in Fills : ~x.year.some)

\* Storable::from_template: a project whose record file is still to be copied
\* into the storage; `instantiates` is whether filling the template succeeds.
from_template(id, fill, instantiates) ==
    IF instantiates THEN Ok(record_data(id, fill)) ELSE Err("Template")

\* slug::slugify, one character at a time: letters are lowercased, letters and
\* digits are kept, a run of anything else becomes one '-', none at the start.
RECURSIVE slug_chars(_, _)
slug_chars(string, acc) ==
    IF Len(string) = 0 THEN acc
    ELSE LET c == string[1]
             rest == SubSeq(string, 2, Len(string))
         IN  IF IsUpper(c) \/ IsLower(c) \/ IsDigit(c)
             THEN slug_chars(rest, Append(acc, to_lower(c)))
             ELSE IF Len(acc) = 0 \/ acc[Len(acc)] = "-"
             THEN slug_chars(rest, acc)
             ELSE slug_chars(rest, Append(acc, "-"))

\* mod.rs:225: slug::slugify, which also drops a trailing '-'.
slugify(string) ==
    LET s == slug_chars(string, <<>>)
    IN  IF Len(s) > 0 /\ s[Len(s)] = "-" THEN SubSeq(s, 1, Len(s) - 1) ELSE s

\* mod.rs:707-713: the file of the folder that has the record extension.  A
\* record directory holds one such file, so `find` has one candidate at most.
get_project_file(f, directory) ==
    Bind(list_path_content(f, directory), LAMBDA content :
        IF ~content.ok THEN content
        ELSE Bind({p \in content.val : extension(p) = Some(file_extension)}, LAMBDA found :
                IF found = {} THEN Err("ProjectDoesNotExist")
                ELSE Ok(CHOOSE p \in found : TRUE)))

\* get_project_name that takes the name of the directory for the name.
get_project_name_of_directory(f, directory) ==
    Bind(get_project_file(f, directory), LAMBDA path :
        IF ~path.ok THEN path
        ELSE IF file_name(directory).some THEN Ok(file_name(directory).v)
        ELSE Err("BadProjectFileName"))

\* mod.rs:715-721
get_project_name(f, directory) ==
    Bind(get_project_file(f, directory), LAMBDA path :
        IF ~path.ok THEN path
        ELSE IF file_stem(path.val).some THEN Ok(file_stem(path.val).v)
        ELSE Err("BadProjectFileName"))

\* Storable::open_folder: the project of a folder, if it holds a record file.
open_folder(f, path) ==
    Bind(get_project_file(f, path), LAMBDA file :
        IF ~file.ok \/ is_dir(f, file.val) THEN Err("Open")
        ELSE Ok([file |-> file.val, data |-> read_file(f, file.val), git_status |-> None]))

\* mod.rs:376-389
list_template_files(self, f) ==
    Bind(list_path_content(f, self.templates), LAMBDA content :
        IF ~content.ok THEN content
        ELSE Bind({p \in content.val : extension(p) = Some(template_extension)},
                  LAMBDA template_files :
                      IF template_files = {} THEN Err("TemplateNotFound")
                      ELSE Ok(template_files)))

\* mod.rs:403-408
get_template_file(self, f, name) ==
    Bind(list_template_files(self, f), LAMBDA listed :
        IF ~listed.ok THEN listed
        ELSE Bind({p \in listed.val : file_stem(p) = Some(name)}, LAMBDA found :
                IF found = {} THEN Err("TemplateNotFound")
                ELSE Ok(CHOOSE p \in found : TRUE)))

-----------------------------------------------------------------------------
(* Creating, archiving, unarchiving and deleting projects (mod.rs:434-640). *)

\* repo_add that calls git whether or not a repository is attached.
repo_add_unconditionally(self, paths, staged) == <<Event("add", paths, staged)>>

\* `if let Some(repo) = self.repository() { repo.add(paths) }`: add is called
\* when a repository is attached; `staged` is whether the git process
\* succeeds, which add returns.
repo_add(self, paths, staged) ==
    IF self.repository THEN <<Event("add", paths, staged)>> ELSE <<>>

\* mod.rs:454-469: the project directory is made, then the record file copied.
write_project(f, project_dir, target_file, data, copies) ==
    Bind(create_dir(f, project_dir), LAMBDA made :
        IF ~made.ret.ok THEN made
        ELSE IF ~copies THEN Out(made.fs, Err("Io"))
        ELSE Bind(copy(made.fs, data, target_file), LAMBDA copied :
                IF ~copied.ret.ok THEN copied
                ELSE Out(copied.fs, Ok([file |-> target_file, data |-> data, git_status |-> None]))))

\* create_project that does not look whether the project directory exists.
create_project_unchecked(self, f, id, project_name, template_name, fill, instantiates, copies) ==
    IF ~exists(f, self.working) THEN Out(f, Err("NoWorkingDir"))
    ELSE Bind(slugify(project_name), LAMBDA slugged_name :
           Bind(join(self.working, <<slugged_name>>), LAMBDA project_dir :
             Bind(get_template_file(self, f, template_name), LAMBDA template_path :
                IF ~template_path.ok THEN Out(f, template_path)
                ELSE Bind(from_template(id, fill, instantiates), LAMBDA project :
                       IF ~project.ok THEN Out(f, project)
                       ELSE write_project(f, project_dir,
                                join(project_dir,
                                     <<slugged_name \o <<".">> \o file_extension>>),
                                project.val, copies)))))

\* mod.rs:436-470.  `instantiates` and `copies` are the outcomes of
\* L::from_template and of fs::copy.
create_project(self, f, id, project_name, template_name, fill, instantiates, copies) ==
    IF ~exists(f, self.working) THEN Out(f, Err("NoWorkingDir"))
    ELSE Bind(slugify(project_name), LAMBDA slugged_name :
           Bind(join(self.working, <<slugged_name>>), LAMBDA project_dir :
             IF exists(f, project_dir) THEN Out(f, Err("ProjectDirExists"))
             ELSE Bind(get_template_file(self, f, template_name), LAMBDA template_path :
                    IF ~template_path.ok THEN Out(f, template_path)
                    ELSE Bind(from_template(id, fill, instantiates), LAMBDA project :
                           IF ~project.ok THEN Out(f, project)
                           ELSE write_project(f, project_dir,
                                    join(project_dir,
                                         <<slugged_name \o <<".">> \o file_extension>>),
                                    project.val, copies)))))

\* A name in the archive that leaves the prefix out.
name_in_archive_unprefixed(project) == ident(project)

\* mod.rs:512-515
name_in_archive(project) ==
    IF prefix(project).some THEN prefix(project).v \o <<"_">> \o ident(project)
    ELSE ident(project)

\* archive_project that copies the directory and leaves the source behind.
archive_project_copying(self, f, project, year, staged) ==
    Bind(create_archive(self, f, year), LAMBDA archive :
        IF ~archive.ret.ok THEN archive
        ELSE Bind(join(archive.ret.val, <<name_in_archive(project)>>), LAMBDA target :
               Bind(rename(archive.fs, dir(project), target), LAMBDA moved :
                 IF ~moved.ret.ok THEN moved
                 ELSE Bind(<<dir(project), target>>, LAMBDA moved_files :
                        OutGit([dirs  |-> moved.fs.dirs \cup f.dirs,
                                files |-> moved.fs.files \cup f.files],
                               Ok(moved_files),
                               moved.trace \o repo_add(self, moved_files, staged))))))

\* archive_project that moves the directory back and fails when git does
\* not stage the moved paths.
archive_project_strict(self, f, project, year, staged) ==
    Bind(create_archive(self, f, year), LAMBDA archive :
        IF ~archive.ret.ok THEN archive
        ELSE Bind(join(archive.ret.val, <<name_in_archive(project)>>), LAMBDA target :
               Bind(rename(archive.fs, dir(project), target), LAMBDA moved :
                 IF ~moved.ret.ok THEN moved
                 ELSE Bind(<<dir(project), target>>, LAMBDA moved_files :
                        IF self.repository /\ ~staged
                        THEN OutGit(archive.fs, Err("GitProcessFailed"),
                                    moved.trace \o repo_add(self, moved_files, staged))
                        ELSE OutGit(moved.fs, Ok(moved_files),
                                    moved.trace \o repo_add(self, moved_files, staged))))))

\* archive_project that has git stage the two paths before it moves the
\* directory.
archive_project_staging_first(self, f, project, year, staged) ==
    Bind(create_archive(self, f, year), LAMBDA archive :
        IF ~archive.ret.ok THEN archive
        ELSE Bind(join(archive.ret.val, <<name_in_archive(project)>>), LAMBDA target :
               Bind(<<dir(project), target>>, LAMBDA moved_files :
                 Bind(rename(archive.fs, dir(project), target), LAMBDA moved :
                    OutGit(moved.fs,
                           IF moved.ret.ok THEN Ok(moved_files) ELSE moved.ret,
                           repo_add(self, moved_files, staged) \o moved.trace)))))

\* mod.rs:507-532.  What add returns is dropped (mod.rs:528).
archive_project(self, f, project, year, staged) ==
    Bind(create_archive(self, f, year), LAMBDA archive :
        IF ~archive.ret.ok THEN archive
        ELSE Bind(join(archive.ret.val, <<name_in_archive(project)>>), LAMBDA target :
               Bind(rename(archive.fs, dir(project), target), LAMBDA moved :
                 IF ~moved.ret.ok THEN moved
                 ELSE Bind(<<dir(project), target>>, LAMBDA moved_files :
                        OutGit(moved.fs, Ok(moved_files),
                               moved.trace \o repo_add(self, moved_files, staged))))))

\* mod.rs:622-625
parent_is_num(archived_dir) ==
    LET p == parent(archived_dir)
        stem == IF p.some THEN file_stem(p.v) ELSE None
    IN  stem.some /\ parse_i32(stem.v).some

\* unarchive_project_dir that does not look whether the target is free.
unarchive_project_dir_unchecked(self, f, archived_dir) ==
    Bind(get_project_name(f, archived_dir), LAMBDA name :
        IF ~name.ok THEN Out(f, name)
        ELSE Bind(join(self.working, <<name.val>>), LAMBDA target :
               IF starts_with(archived_dir, self.archive)
                  /\ ~(archived_dir = self.archive)
                  /\ parent_is_num(archived_dir)
               THEN Bind(rename(f, archived_dir, target), LAMBDA moved :
                      IF ~moved.ret.ok THEN moved
                      ELSE OutGit(moved.fs, Ok(target), moved.trace))
               ELSE Out(f, Err("InvalidDirStructure"))))

\* unarchive_project_dir that names the target after the archived directory.
unarchive_project_dir_keeping_name(self, f, archived_dir) ==
    Bind(get_project_name(f, archived_dir), LAMBDA name :
        IF ~name.ok THEN Out(f, name)
        ELSE Bind(join(self.working, <<file_name(archived_dir).v>>), LAMBDA target :
               IF exists(f, target) THEN Out(f, Err("ProjectFileExists"))
               ELSE IF starts_with(archived_dir, self.archive)
                       /\ ~(archived_dir = self.archive)
                       /\ parent_is_num(archived_dir)
               THEN Bind(rename(f, archived_dir, target), LAMBDA moved :
                      IF ~moved.ret.ok THEN moved
                      ELSE OutGit(moved.fs, Ok(target), moved.trace))
               ELSE Out(f, Err("InvalidDirStructure"))))

\* mod.rs:612-640
unarchive_project_dir(self, f, archived_dir) ==
    Bind(get_project_name(f, archived_dir), LAMBDA name :
        IF ~name.ok THEN Out(f, name)
        ELSE Bind(join(self.working, <<name.val>>), LAMBDA target :
               IF exists(f, target) THEN Out(f, Err("ProjectFileExists"))
               ELSE IF starts_with(archived_dir, self.archive)
                       /\ ~(archived_dir = self.archive)
                       /\ parent_is_num(archived_dir)
               THEN Bind(rename(f, archived_dir, target), LAMBDA moved :
                      IF ~moved.ret.ok THEN moved
                      ELSE OutGit(moved.fs, Ok(target), moved.trace))
               ELSE Out(f, Err("InvalidDirStructure"))))

\* mod.rs:607-609
unarchive_project(self, f, project) == unarchive_project_dir(self, f, dir(project))

\* mod.rs:305-307: the repository, which is the one at the root.
get_repository(self) == IF self.repository THEN Ok(self.root) ELSE Err("RepoUninitialized")

\* delete_project_dir_if that removes the directory the project directory
\* is in.
delete_project_dir_if_with_parent(f, project, confirmed) ==
    IF confirmed THEN remove_dir_all(f, parent(dir(project)).v) ELSE Out(f, Ok(<<>>))

\* Storable::delete_project_dir_if: removes the project directory when the
\* confirmation says so.
delete_project_dir_if(f, project, confirmed) ==
    IF confirmed THEN remove_dir_all(f, dir(project)) ELSE Out(f, Ok(<<>>))

\* delete_project_if that takes a git failure for advice.
delete_project_if_forgiving(self, f, project, confirmed, staged) ==
    Bind(delete_project_dir_if(f, project, confirmed), LAMBDA deleted :
        IF ~deleted.ret.ok THEN deleted
        ELSE OutGit(deleted.fs, Ok(<<>>), repo_add(self, <<dir(project)>>, staged)))

\* mod.rs:570-582.  `staged` is whether Repository::add succeeds.
delete_project_if(self, f, project, confirmed, staged) ==
    Bind(delete_project_dir_if(f, project, confirmed), LAMBDA deleted :
        IF ~deleted.ret.ok THEN deleted
        ELSE IF self.repository /\ ~staged
        THEN OutGit(deleted.fs, Err("GitProcessFailed"),
                    repo_add(self, <<dir(project)>>, staged))
        ELSE OutGit(deleted.fs, Ok(<<>>), repo_add(self, <<dir(project)>>, staged)))

-----------------------------------------------------------------------------
(* Listing, opening and searching projects (mod.rs:410-432, 649-909). *)

\* enum StorageDir (mod.rs:81-101)
Working == [kind |-> "Working", year |-> 0]
Archive(y) == [kind |-> "Archive", year |-> y]
Year(y) == [kind |-> "Year", year |-> y]
All == [kind |-> "All", year |-> 0]
Root == [kind |-> "Root", year |-> 0]

\* The elements of sequence s that satisfy Keep, in the order of s.
RECURSIVE SelectIn(_, _)
SelectIn(s, set) ==
    IF Len(s) = 0 THEN <<>>
    ELSE IF s[1] \in set THEN <<s[1]>> \o SelectIn(Tail(s), set)
    ELSE SelectIn(Tail(s), set)

Range(s) == {s[i] : i \in 1..Len(s)}

\* All orders in which the elements of a set can be listed.
RECURSIVE Orders(_)
Orders(set) ==
    IF set = {} THEN {<<>>}
    ELSE UNION {{<<x>> \o rest : rest \in Orders(set \ {x})} : x \in set}

\* mod.rs:415-418
list_archives(self, f) == list_path_content(f, self.archive)

\* mod.rs:421-432: the years that the entries of the archive parse to.
list_years(self, f) ==
    Bind(list_archives(self, f), LAMBDA archives :
        IF ~archives.ok THEN archives
        ELSE Ok({parse_i32(file_stem(p).v).v :
                    p \in {q \in archives.val : parse_i32(file_stem(q).v).some}}))

\* mod.rs:742-749: the folders of every year's archive and of the working directory.
list_all_folders(self, f) ==
    Bind(list_years(self, f), LAMBDA years :
        IF ~years.ok THEN years
        ELSE Bind([y \in years.val |->
                      list_path_content(f, join(self.archive, <<to_string(y)>>))],
                  LAMBDA part :
                      IF \E y \in years.val : ~part[y].ok THEN Err("Io")
                      ELSE Bind(list_path_content(f, self.working), LAMBDA working :
                             IF ~working.ok THEN working
                             ELSE Ok(UNION {part[y].val : y \in years.val} \cup working.val))))

\* mod.rs:733-752, as a set.  `listing` below gives the order of fs::read_dir.
list_project_folders(self, f, directory) ==
    CASE directory.kind = "Working" -> list_path_content(f, self.working)
      [] directory.kind = "Archive" ->
            Bind(list_path_content(f, join(self.archive, <<to_string(directory.year)>>)),
                 LAMBDA list : IF list.ok THEN list ELSE Ok({}))
      [] directory.kind = "All" -> list_all_folders(self, f)
      [] OTHER -> Err("BadChoice")

\* list_empty_project_dirs that does not look into the folders.
list_empty_project_dirs_unfiltered(self, f, directory) ==
    list_project_folders(self, f, directory)

\* mod.rs:755-762
list_empty_project_dirs(self, f, directory) ==
    Bind(list_project_folders(self, f, directory), LAMBDA folders :
        IF ~folders.ok THEN folders
        ELSE Ok({d \in folders.val : ~get_project_file(f, d).ok}))

\* mod.rs:773-782.  `accepted` is the set of the paths of which the filter
\* closure says true.
filter_project_files(self, f, directory, accepted) ==
    Bind(list_project_folders(self, f, directory), LAMBDA folders :
        IF ~folders.ok THEN folders
        ELSE Ok({get_project_file(f, d).val :
                    d \in {x \in folders.val : get_project_file(f, x).ok}} \cap accepted))

\* Storable::open_file: a record file opens as a project.
open_file(f, path) ==
    IF extension(path) = Some(file_extension)
    THEN Ok([file |-> path, data |-> read_file(f, path), git_status |-> None])
    ELSE Err("Open")

\* mod.rs:897-909.  path.metadata().unwrap() at 898 panics when there is
\* nothing at the path.
open_project(f, path) ==
    IF ~exists(f, path) THEN Err("Panic")
    ELSE IF is_dir(f, path) THEN open_folder(f, path) ELSE open_file(f, path)

\* Repository::get_status(dir): the status the repository reports for the
\* directory, which the model leaves uninterpreted.
get_status(directory) == Some(directory)

\* Storable::set_git_status
set_git_status(project, status) == [project EXCEPT !.git_status = status]

\* mod.rs:835-837: the projects of the paths that open, in the order of the
\* paths; a panic of open_project ends the call.
RECURSIVE open_each(_, _)
open_each(f, paths) ==
    IF Len(paths) = 0 THEN Ok(<<>>)
    ELSE Bind(open_project(f, paths[1]), LAMBDA project :
            IF ~project.ok /\ project.err = "Panic" THEN project
            ELSE Bind(open_each(f, Tail(paths)), LAMBDA rest :
                   IF ~rest.ok THEN rest
                   ELSE Ok((IF project.ok THEN <<project.val>> ELSE <<>>) \o rest.val)))

\* mod.rs:833-855 (807-830 with rayon, whose collect keeps the order).
\* `git_statuses` is whether the build has the feature of that name.
open_paths(self, f, paths, git_statuses) ==
    Bind(open_each(f, paths), LAMBDA projects :
        IF ~projects.ok THEN projects
        ELSE IF git_statuses /\ self.repository
        THEN Ok([i \in 1..Len(projects.val) |->
                    set_git_status(projects.val[i], get_status(dir(projects.val[i])))])
        ELSE projects)

\* mod.rs:869-871: the projects of the folders of a directory; `listing` is
\* the order in which fs::read_dir yields the folders.
open_folders_of(self, f, directory, listing, git_statuses) ==
    Bind(list_project_folders(self, f, directory), LAMBDA folders :
        IF ~folders.ok THEN folders
        ELSE open_paths(self, f, SelectIn(listing, folders.val), git_statuses))

\* ProjectList::filter_by_key_val("Year", year): the projects of that year.
filter_by_year(projects, year) ==
    SelectIn(projects, {projects[i] : i \in {j \in 1..Len(projects) :
                                               year_of(projects[j]) = Some(year)}})

\* open_projects_dir that leaves the projects of other years in the list.
open_projects_dir_unfiltered(self, f, directory, listing, git_statuses) ==
    IF directory.kind = "Year"
    THEN Bind(open_folders_of(self, f, Archive(directory.year), listing, git_statuses),
              LAMBDA archived :
                 IF ~archived.ok THEN archived
                 ELSE Bind(open_folders_of(self, f, Working, listing, git_statuses),
                           LAMBDA working :
                              IF ~working.ok THEN working
                              ELSE Ok(archived.val \o working.val)))
    ELSE open_folders_of(self, f, directory, listing, git_statuses)

\* mod.rs:858-873.  For Year(year), open_projects of the year's archive and
\* of the working directory are open_projects_dir of these (mod.rs:802).
open_projects_dir(self, f, directory, listing, git_statuses) ==
    IF directory.kind = "Year"
    THEN Bind(open_folders_of(self, f, Archive(directory.year), listing, git_statuses),
              LAMBDA archived :
                 IF ~archived.ok THEN archived
                 ELSE Bind(open_folders_of(self, f, Working, listing, git_statuses),
                           LAMBDA working :
                              IF ~working.ok THEN working
                              ELSE Ok(filter_by_year(archived.val \o working.val,
                                                     directory.year))))
    ELSE open_folders_of(self, f, directory, listing, git_statuses)

\* The characters of the model in the order of their code points.
CodeOrder == <<" ", "+", "-", ".", "/",
               "0", "1", "2", "3", "4", "5", "6", "7", "8", "9",
               "A", "B", "C", "D", "E", "F", "G", "H", "I", "J", "K", "L", "M",
               "N", "O", "P", "Q", "R", "S", "T", "U", "V", "W", "X", "Y", "Z", "_",
               "a", "b", "c", "d", "e", "f", "g", "h", "i", "j", "k", "l", "m",
               "n", "o", "p", "q", "r", "s", "t", "u", "v", "w", "x", "y", "z", "{">>
code(c) == CHOOSE i \in 1..Len(CodeOrder) : CodeOrder[i] = c

\* String::cmp is Less or Equal.
RECURSIVE str_le(_, _)
str_le(a, b) ==
    IF Len(a) = 0 THEN TRUE
    ELSE IF Len(b) = 0 THEN FALSE
    ELSE IF a[1] # b[1] THEN code(a[1]) < code(b[1])
    ELSE str_le(Tail(a), Tail(b))

\* mod.rs:661-663: the sort key, "zzzz" for a project without index.
sort_key(project) ==
    IF index(project).some THEN index(project).v ELSE <<"z","z","z","z">>

\* Inserts x after the elements of the sorted s that are not greater: with
\* sort_by_index below, the stable sort of Vec::sort_by.
RECURSIVE insert_sorted(_, _)
insert_sorted(s, x) ==
    IF Len(s) = 0 THEN <<x>>
    ELSE IF str_le(sort_key(s[1]), sort_key(x)) THEN <<s[1]>> \o insert_sorted(Tail(s), x)
    ELSE <<x>> \o s

\* mod.rs:660-664
RECURSIVE sort_by_index(_)
sort_by_index(projects) ==
    IF Len(projects) = 0 THEN <<>>
    ELSE insert_sorted(sort_by_index(SubSeq(projects, 1, Len(projects) - 1)),
                       projects[Len(projects)])

\* str::to_lowercase
to_lowercase(s) == [i \in 1..Len(s) |-> to_lower(s[i])]

contains(text, term) ==
    \E i \in 1..(Len(text) - Len(term) + 1) : SubSeq(text, i, i + Len(term) - 1) = term

\* Storable::matches_search: the project's text, its name, contains the term.
matches_search(project, term) == contains(to_lowercase(ident(project)), term)

\* str::parse::<usize> of digits, which a '+' may precede.
parse_usize(s) ==
    LET body == IF Len(s) > 0 /\ s[1] = "+" THEN Tail(s) ELSE s
    IN  IF Len(body) = 0 \/ \E i \in 1..Len(body) : ~IsDigit(body[i]) THEN NoneInt
        ELSE Some(digits_value(body))

\* mod.rs:651-658
search_index(search_term) ==
    IF Len(search_term) > 0 /\ search_term[1] = "N" THEN parse_usize(Tail(search_term))
    ELSE NoneInt

\* mod.rs:665-672: the projects at the searched position or matching the term.
filter_search(projects, search_term) ==
    SelectIn(projects,
             {projects[i] : i \in {j \in 1..Len(projects) :
                 \/ search_index(search_term).some /\ search_index(search_term).v = j
                 \/ matches_search(projects[j], to_lowercase(search_term))}})

\* mod.rs:649-674
search_projects(self, f, directory, search_term, listing, git_statuses) ==
    Bind(open_projects_dir(self, f, directory, listing, git_statuses), LAMBDA opened :
        IF ~opened.ok THEN opened
        ELSE Ok(filter_search(sort_by_index(opened.val), search_term)))

\* search_projects_any that takes a project once, at its first term.
RECURSIVE search_projects_any_deduplicating(_, _, _, _, _, _)
search_projects_any_deduplicating(self, f, directory, search_terms, listing, git_statuses) ==
    IF Len(search_terms) = 0 THEN Ok(<<>>)
    ELSE Bind(search_projects(self, f, directory, search_terms[1], listing, git_statuses),
              LAMBDA found :
            IF ~found.ok THEN found
            ELSE Bind(search_projects_any_deduplicating(self, f, directory, Tail(search_terms),
                                                        listing, git_statuses),
                      LAMBDA rest :
                         IF ~rest.ok THEN rest
                         ELSE Ok(found.val \o SelectIn(rest.val,
                                                       Range(rest.val) \ Range(found.val)))))

\* mod.rs:678-686
RECURSIVE search_projects_any(_, _, _, _, _, _)
search_projects_any(self, f, directory, search_terms, listing, git_statuses) ==
    IF Len(search_terms) = 0 THEN Ok(<<>>)
    ELSE Bind(search_projects(self, f, directory, search_terms[1], listing, git_statuses),
              LAMBDA found :
            IF ~found.ok THEN found
            ELSE Bind(search_projects_any(self, f, directory, Tail(search_terms), listing,
                                          git_statuses),
                      LAMBDA rest : IF ~rest.ok THEN rest ELSE Ok(found.val \o rest.val)))

\* enum StorageSelection (mod.rs:105-110)
DirAndSearch(directory, search_terms) ==
    [kind |-> "DirAndSearch", dir |-> directory, terms |-> search_terms, paths |-> <<>>]
Dir(directory) ==
    [kind |-> "Dir", dir |-> directory, terms |-> <<>>, paths |-> <<>>]
Paths(paths) ==
    [kind |-> "Paths", dir |-> Root, terms |-> <<>>, paths |-> paths]
Uninitialized ==
    [kind |-> "Uninitialized", dir |-> Root, terms |-> <<>>, paths |-> <<>>]

\* impl Default for StorageSelection (mod.rs:126-130)
DefaultSelection == DirAndSearch(Working, <<>>)

\* open_projects that returns the projects searched for even when there
\* are none.
open_projects_allowing_none(self, f, selection, listing, git_statuses) ==
    CASE selection.kind = "DirAndSearch" ->
            search_projects_any(self, f, selection.dir, selection.terms, listing,
                                git_statuses)
      [] selection.kind = "Dir" ->
            open_projects_dir(self, f, selection.dir, listing, git_statuses)
      [] selection.kind = "Paths" -> open_paths(self, f, selection.paths, git_statuses)
      [] OTHER -> Err("Panic")

\* mod.rs:785-805.  unreachable!() at 801 panics.
open_projects(self, f, selection, listing, git_statuses) ==
    CASE selection.kind = "DirAndSearch" ->
            Bind(search_projects_any(self, f, selection.dir, selection.terms, listing,
                                     git_statuses),
                 LAMBDA projects :
                    IF ~projects.ok THEN projects
                    ELSE IF Len(projects.val) = 0 THEN Err("NothingFound")
                    ELSE projects)
      [] selection.kind = "Dir" ->
            open_projects_dir(self, f, selection.dir, listing, git_statuses)
      [] selection.kind = "Paths" -> open_paths(self, f, selection.paths, git_statuses)
      [] OTHER -> Err("Panic")

-----------------------------------------------------------------------------
(* Batch archiving and unarchiving (mod.rs:538-604). *)

\* What a loop over projects has done so far.
Loop(f, moved_files, trace, error) ==
    [fs |-> f, moved_files |-> moved_files, trace |-> trace, error |-> error]

\* The loop body without the look whether the project is ready or forced.
archive_one_ungated(self, acc, project, manual_year, force, info_logged, staged) ==
    Bind(IF manual_year.some THEN manual_year ELSE year_of(project), LAMBDA chosen :
       IF ~chosen.some THEN [acc EXCEPT !.error = "Panic"]
       ELSE IF info_logged /\ ~year_of(project).some THEN [acc EXCEPT !.error = "Panic"]
       ELSE Bind(archive_project(self, acc.fs, project, chosen.v, staged), LAMBDA archive_target :
              IF ~archive_target.ret.ok
              THEN Loop(archive_target.fs, acc.moved_files, acc.trace,
                        archive_target.ret.err)
              ELSE Loop(archive_target.fs,
                        acc.moved_files \o <<dir(project)>> \o archive_target.ret.val,
                        acc.trace \o archive_target.trace, "none")))

\* mod.rs:550-560: one project of the loop.  `info_logged` is whether the log
\* level lets the log::info! at 553 evaluate its arguments, among them
\* project.year().unwrap().
archive_one(self, acc, project, manual_year, force, info_logged, staged) ==
    IF ~(is_ready_for_archive(project) \/ force) THEN acc
    ELSE Bind(IF manual_year.some THEN manual_year ELSE year_of(project), LAMBDA chosen :
           IF ~chosen.some THEN [acc EXCEPT !.error = "Panic"]
           ELSE IF info_logged /\ ~year_of(project).some THEN [acc EXCEPT !.error = "Panic"]
           ELSE Bind(archive_project(self, acc.fs, project, chosen.v, staged), LAMBDA archive_target :
                  IF ~archive_target.ret.ok
                  THEN Loop(archive_target.fs, acc.moved_files, acc.trace,
                            archive_target.ret.err)
                  ELSE Loop(archive_target.fs,
                            acc.moved_files \o <<dir(project)>> \o archive_target.ret.val,
                            acc.trace \o archive_target.trace, "none")))

\* mod.rs:548-561: the loop stops at the first error.
RECURSIVE archive_each(_, _, _, _, _, _, _)
archive_each(self, acc, projects, manual_year, force, info_logged, staged) ==
    IF Len(projects) = 0 \/ acc.error # "none" THEN acc
    ELSE archive_each(self,
                      archive_one(self, acc, projects[1], manual_year, force, info_logged,
                                  staged),
                      Tail(projects), manual_year, force, info_logged, staged)

\* The value of a batch operation once its loop is done.
batch_result(self, done, staged) ==
    IF done.error # "none" THEN OutGit(done.fs, Err(done.error), done.trace)
    ELSE OutGit(done.fs, Ok(done.moved_files),
                done.trace \o repo_add(self, done.moved_files, staged))

\* archive_projects_if without the ensure! that something was found.
archive_projects_if_unensured(self, f, search_terms, manual_year, confirm, info_logged, listing, git_statuses, staged) ==
    Bind(search_projects_any(self, f, Working, search_terms, listing, git_statuses),
         LAMBDA projects :
        IF ~projects.ok THEN Out(f, projects)
        ELSE Bind(confirm[1], LAMBDA force :
               batch_result(self,
                            archive_each(self,
                                         Loop(f, <<>>, <<Event("confirm", <<>>, force)>>,
                                              "none"),
                                         projects.val, manual_year, force, info_logged,
                                         staged),
                            staged)))

\* archive_projects_if that evaluates the closure anew for each project.
archive_projects_if_asking_each(self, f, search_terms, manual_year, confirm, info_logged, listing, git_statuses, staged) ==
    Bind(search_projects_any(self, f, Working, search_terms, listing, git_statuses),
         LAMBDA projects :
        IF ~projects.ok THEN Out(f, projects)
        ELSE IF Len(projects.val) = 0 THEN Out(f, Err("ProjectDoesNotExist"))
        ELSE Bind(archive_each(self,
                               Loop(f, <<>>, <<Event("confirm", <<>>, confirm[1])>>, "none"),
                               <<projects.val[1]>>, manual_year, confirm[1], info_logged,
                               staged),
                  LAMBDA first :
                     batch_result(self,
                                  archive_each(self,
                                               [first EXCEPT !.trace =
                                                   @ \o <<Event("confirm", <<>>, confirm[2])>>],
                                               Tail(projects.val), manual_year, confirm[2],
                                               info_logged, staged),
                                  staged)))

\* archive_projects_if that undoes its moves when one of them fails.
archive_projects_if_atomic(self, f, search_terms, manual_year, confirm, info_logged, listing, git_statuses, staged) ==
    Bind(search_projects_any(self, f, Working, search_terms, listing, git_statuses),
         LAMBDA projects :
        IF ~projects.ok THEN Out(f, projects)
        ELSE Bind(confirm[1], LAMBDA force :
               IF Len(projects.val) = 0
               THEN OutGit(f, Err("ProjectDoesNotExist"), <<Event("confirm", <<>>, force)>>)
               ELSE Bind(batch_result(self,
                                      archive_each(self,
                                                   Loop(f, <<>>,
                                                        <<Event("confirm", <<>>, force)>>,
                                                        "none"),
                                                   projects.val, manual_year, force,
                                                   info_logged, staged),
                                      staged),
                         LAMBDA out : IF out.ret.ok THEN out
                                      ELSE OutGit(f, out.ret, out.trace))))

\* mod.rs:538-568.  `confirm` is the closure, given as the answers of its
\* successive evaluations; it is evaluated at mod.rs:542.
archive_projects_if(self, f, search_terms, manual_year, confirm, info_logged, listing, git_statuses, staged) ==
    Bind(search_projects_any(self, f, Working, search_terms, listing, git_statuses),
         LAMBDA projects :
        IF ~projects.ok THEN Out(f, projects)
        ELSE Bind(confirm[1], LAMBDA force :
               IF Len(projects.val) = 0
               THEN OutGit(f, Err("ProjectDoesNotExist"), <<Event("confirm", <<>>, force)>>)
               ELSE batch_result(self,
                                 archive_each(self,
                                              Loop(f, <<>>, <<Event("confirm", <<>>, force)>>,
                                                   "none"),
                                              projects.val, manual_year, force, info_logged,
                                              staged),
                                 staged)))

\* mod.rs:593-596: the unwrap at 594 panics when the unarchive fails.
unarchive_one(self, acc, project) ==
    Bind(unarchive_project(self, acc.fs, project), LAMBDA unarchive_target :
        IF ~unarchive_target.ret.ok
        THEN Loop(unarchive_target.fs, acc.moved_files, acc.trace, "Panic")
        ELSE Loop(unarchive_target.fs,
                  acc.moved_files \o <<dir(project), unarchive_target.ret.val>>,
                  acc.trace \o unarchive_target.trace, "none"))

\* mod.rs:592-597
RECURSIVE unarchive_each(_, _, _)
unarchive_each(self, acc, projects) ==
    IF Len(projects) = 0 \/ acc.error # "none" THEN acc
    ELSE unarchive_each(self, unarchive_one(self, acc, projects[1]), Tail(projects))

\* unarchive_projects that leaves git out.
unarchive_projects_unstaged(self, f, year, search_terms, listing, git_statuses, staged) ==
    Bind(search_projects_any(self, f, Archive(year), search_terms, listing, git_statuses),
         LAMBDA projects :
        IF ~projects.ok THEN Out(f, projects)
        ELSE Bind(unarchive_each(self, Loop(f, <<>>, <<>>, "none"), projects.val),
                  LAMBDA done :
                     IF done.error # "none" THEN OutGit(done.fs, Err(done.error), done.trace)
                     ELSE OutGit(done.fs, Ok(done.moved_files), done.trace)))

\* mod.rs:588-604
unarchive_projects(self, f, year, search_terms, listing, git_statuses, staged) ==
    Bind(search_projects_any(self, f, Archive(year), search_terms, listing, git_statuses),
         LAMBDA projects :
        IF ~projects.ok THEN Out(f, projects)
        ELSE batch_result(self, unarchive_each(self, Loop(f, <<>>, <<>>, "none"),
                                               projects.val), staged))

-----------------------------------------------------------------------------
(* The inputs the operations are called with. *)

Years == {2023, 2024}

ProjectNames == {s_Birthday_Party, s_birthday_party, s_Foo}

TemplateNames == {s_std, s_misc}

TermLists ==
    { <<>>, <<s_Party>>, <<s_N1>>, <<s_Party, s_o>>, <<s_o, s_foo>> }

\* The configuration of setup() (mod.rs:189-197): an absolute storage path
\* and the names of the directories.
ConfigRoot == <<Slash, s_srv, s_db>>

ConfigStorage(git) ==
    IF git THEN try_new_with_git(ConfigRoot, <<s_work>>, <<s_arch>>, <<s_tmpl>>, TRUE).val
    ELSE try_new(ConfigRoot, <<s_work>>, <<s_arch>>, <<s_tmpl>>).val

NoStorage == [some |-> FALSE, v |-> <<>>]

TemplateFile(self) ==
    [path |-> join(self.templates, <<s_std \o <<".">> \o template_extension>>),
     data |-> template_data]

\* A storage in use: the layout of create_dirs, a template, and in the
\* archive a directory that is no year, with a project directory in it.
UsedFileSystem(self) ==
    [dirs  |-> {<<Slash>>, <<Slash, s_srv>>, self.root, self.working, self.archive,
                self.templates, join(self.archive, <<s_misc>>),
                join(self.archive, <<s_misc, s_zed>>)},
     files |-> {TemplateFile(self),
                [path |-> join(self.archive, <<s_misc, s_zed, s_zed \o <<".">> \o file_extension>>),
                 data |-> template_data]}]

\* The file systems a storage can be set up on: nothing but "/", or the
\* parent of the root with any part of the layout (a template comes with the
\* templates directory).
FreshFileSystems(self) ==
    {[dirs |-> {<<Slash>>}, files |-> {}], [dirs |-> {<<Slash>>, <<Slash, s_srv>>}, files |-> {}]}
    \cup {[dirs  |-> {<<Slash>>, <<Slash, s_srv>>, self.root} \cup layout,
           files |-> IF self.templates \in layout THEN {TemplateFile(self)} ELSE {}] :
              layout \in SUBSET {self.working, self.archive, self.templates}}

\* The projects a caller can hold: those the storage opens from the working
\* directory and from the archives (open_projects, mod.rs:785-805).
OpenProjects(self, f) ==
    LET folders == list_project_folders(self, f, All)
    IN  IF ~folders.ok THEN {}
        ELSE {open_project(f, d).val : d \in {x \in folders.val : open_project(f, x).ok}}

Idle == [op |-> "none", args |-> <<>>, ret |-> Ok(<<>>), trace |-> <<>>]

Call(op, args, out) == [op |-> op, args |-> args, ret |-> out.ret, trace |-> out.trace]

NoArchive == [some |-> FALSE, v |-> <<>>]

-----------------------------------------------------------------------------
(* The state machine: one action per operation of the storage, taken when  *)
(* no call is pending, and Return, which hands the value to the caller.    *)
(* Here the archive and unarchive operations run with a git that succeeds  *)
(* and a confirmation closure that answers alike each time; both are       *)
(* inputs of the calls of SpecSync below.                                  *)

Init ==
    /\ \E git \in BOOLEAN : storage = Some(ConfigStorage(git))
    /\ fs = UsedFileSystem(storage.v)
    /\ next_id = 1
    /\ result = Idle
    /\ last_archive = NoArchive

Ready == storage.some /\ result = Idle

HealthCheck ==
    /\ Ready
    /\ result' = Call("health_check", <<>>, Out(fs, health_check(storage.v, fs)))
    /\ UNCHANGED <<fs, storage, next_id, last_archive>>

CreateDirs ==
    /\ Ready
    /\ LET out == create_dirs(storage.v, fs)
       IN  /\ fs' = out.fs
           /\ result' = Call("create_dirs", <<>>, out)
    /\ UNCHANGED <<storage, next_id, last_archive>>

CreateArchive ==
    /\ Ready
    /\ \E y \in Years :
          LET out == create_archive(storage.v, fs, y)
          IN  /\ fs' = out.fs
              /\ result' = Call("create_archive", <<y>>, out)
    /\ UNCHANGED <<storage, next_id, last_archive>>

CreateProject ==
    /\ Ready
    /\ next_id <= MaxProjects
    /\ \E project_name \in ProjectNames, template_name \in TemplateNames, fill \in Fills,
          outcome \in {<<TRUE, TRUE>>, <<FALSE, TRUE>>} :
          LET out == create_project(storage.v, fs, next_id, project_name, template_name,
                                    fill, outcome[1], outcome[2])
          IN  /\ fs' = out.fs
              /\ result' = Call("create_project", <<project_name, template_name>>, out)
              /\ next_id' = IF out.ret.ok THEN next_id + 1 ELSE next_id
    /\ UNCHANGED <<storage, last_archive>>

ArchiveProject ==
    /\ Ready
    /\ \E project \in OpenProjects(storage.v, fs), y \in Years :
          LET out == archive_project(storage.v, fs, project, y, TRUE)
          IN  /\ fs' = out.fs
              /\ result' = Call("archive_project", <<project, y>>, out)
    /\ UNCHANGED <<storage, next_id, last_archive>>

ArchiveProjectsIf ==
    /\ Ready
    /\ \E search_terms \in TermLists, manual_year \in {NoneInt, Some(2024)},
          force \in BOOLEAN, info_logged \in BOOLEAN, git_statuses \in BOOLEAN :
          LET folders == list_project_folders(storage.v, fs, Working)
          IN  \E listing \in Orders(IF folders.ok THEN folders.val ELSE {}) :
                 LET out == archive_projects_if(storage.v, fs, search_terms, manual_year,
                                                <<force, force>>, info_logged, listing,
                                                git_statuses, TRUE)
                 IN  /\ fs' = out.fs
                     /\ result' = Call("archive_projects_if",
                                       <<search_terms, manual_year, force, listing>>, out)
    /\ UNCHANGED <<storage, next_id, last_archive>>

UnarchiveProjectDir ==
    /\ Ready
    /\ \E archived_dir \in fs.dirs :
          LET out == unarchive_project_dir(storage.v, fs, archived_dir)
          IN  /\ fs' = out.fs
              /\ result' = Call("unarchive_project_dir", <<archived_dir>>, out)
    /\ UNCHANGED <<storage, next_id, last_archive>>

UnarchiveProjects ==
    /\ Ready
    /\ \E y \in Years, search_terms \in TermLists, git_statuses \in BOOLEAN :
          LET folders == list_project_folders(storage.v, fs, Archive(y))
          IN  \E listing \in Orders(folders.val) :
                 LET out == unarchive_projects(storage.v, fs, y, search_terms, listing,
                                               git_statuses, TRUE)
                 IN  /\ fs' = out.fs
                     /\ result' = Call("unarchive_projects", <<y, search_terms>>, out)
    /\ UNCHANGED <<storage, next_id, last_archive>>

DeleteProjectIf ==
    /\ Ready
    /\ \E project \in OpenProjects(storage.v, fs), confirmed \in BOOLEAN, staged \in BOOLEAN :
          LET out == delete_project_if(storage.v, fs, project, confirmed, staged)
          IN  /\ fs' = out.fs
              /\ result' = Call("delete_project_if", <<project, confirmed>>, out)
    /\ UNCHANGED <<storage, next_id, last_archive>>

\* The caller takes the value; it remembers a successful archive_project
\* until its next call has returned.
Return ==
    /\ result # Idle
    /\ result' = Idle
    /\ last_archive' =
          IF result.op = "archive_project" /\ result.ret.ok
          THEN Some([project |-> result.args[1], moved_files |-> result.ret.val])
          ELSE NoArchive
    /\ UNCHANGED <<fs, storage, next_id>>

Next ==
    \/ HealthCheck
    \/ CreateDirs
    \/ CreateArchive
    \/ CreateProject
    \/ ArchiveProject
    \/ ArchiveProjectsIf
    \/ UnarchiveProjectDir
    \/ UnarchiveProjects
    \/ DeleteProjectIf
    \/ Return

Spec == Init /\ [][Next]_vars

-----------------------------------------------------------------------------
(* Setting up the layout: the storage of setup() on a file system that may *)
(* lack any part of the layout.                                            *)

InitLayout ==
    /\ \E git \in BOOLEAN : storage = Some(ConfigStorage(git))
    /\ fs \in FreshFileSystems(storage.v)
    /\ next_id = 1
    /\ result = Idle
    /\ last_archive = NoArchive

NextLayout ==
    \/ HealthCheck
    \/ CreateDirs
    \/ CreateArchive
    \/ Return

SpecLayout == InitLayout /\ [][NextLayout]_vars

-----------------------------------------------------------------------------
(* Construction: try_new and try_new_with_git on any root and names. *)

Roots == {ConfigRoot, <<Slash>>, <<s_db>>, <<s_srv, s_db>>, <<>>}

DirNames(name) == {<<name>>, <<Slash, name>>}

InitNew ==
    /\ storage = NoStorage
    /\ fs = [dirs |-> {<<Slash>>}, files |-> {}]
    /\ next_id = 1
    /\ result = Idle
    /\ last_archive = NoArchive

Constructed(op, args, ret) ==
    /\ result' = [op |-> op, args |-> args, ret |-> ret, trace |-> <<>>]
    /\ storage' = IF ret.ok THEN Some(ret.val) ELSE NoStorage
    /\ UNCHANGED <<fs, next_id, last_archive>>

TryNew ==
    /\ ~storage.some /\ result = Idle
    /\ \E root \in Roots, working \in DirNames(s_work), archive \in DirNames(s_arch),
          template \in DirNames(s_tmpl) :
          Constructed("try_new", <<root, working, archive, template>>,
                      try_new(root, working, archive, template))

TryNewWithGit ==
    /\ ~storage.some /\ result = Idle
    /\ \E root \in Roots, working \in DirNames(s_work), archive \in DirNames(s_arch),
          template \in DirNames(s_tmpl), opens \in BOOLEAN :
          Constructed("try_new_with_git", <<root, working, archive, template>>,
                      try_new_with_git(root, working, archive, template, opens))

NextNew ==
    \/ TryNew
    \/ TryNewWithGit

SpecNew == InitNew /\ [][NextNew]_vars

-----------------------------------------------------------------------------
(* Searching and opening: the read-only operations, on storages that hold  *)
(* up to three projects in the working directory and in an archive.        *)

\* The projects that are created, in this order ...
SearchNames == <<s_Foo, s_Birthday_Party, <<"N","1"," ","B","a","r">> >>

\* ... with these fills: the two of Fills, without index and with index
\* R007, and one with an index before that; all indexed apart, or some
\* without index.
FillChoices ==
    LET R001 == <<"R","0","0","1">>
        early == [prefix |-> Some(R001), year |-> Some(2024), ready |-> TRUE,
                  index |-> Some(R001)]
        late == CHOOSE x \in Fills : x.index.some
        none == CHOOSE x \in Fills : ~x.index.some
    IN  {<<early, late, none>>, <<none, early, late>>, <<none, none, early>>}

\* The file system after create_project for the first `count` names and
\* archive_project into 2024 for those of them that `archived` names.
RECURSIVE Populate(_, _, _, _, _)
Populate(self, f, fills, archived, count) ==
    IF count = 0 THEN f
    ELSE Bind(create_project(self, Populate(self, f, fills, archived, count - 1), count,
                             SearchNames[count], s_std, fills[count], TRUE, TRUE),
              LAMBDA created :
                 IF count \in archived
                 THEN archive_project(self, created.fs, created.ret.val, 2024, TRUE).fs
                 ELSE created.fs)

SearchedFileSystems(self) ==
    {Populate(self, UsedFileSystem(self), fills, archived, count) :
        fills \in FillChoices, archived \in SUBSET (1..Len(SearchNames)),
        count \in 0..Len(SearchNames)}

SearchTerms ==
    {s_N1, <<"N","2">>, <<"N","9">>, <<"N","+","2">>, <<"N","x">>, s_Party, s_o}

SearchTermLists ==
    {<<>>, <<s_o>>, <<s_o, s_foo>>, <<s_N1, s_Party>>, << <<"N","9">>, <<"N","x">> >>}

Directories == {Working, Archive(2024), Year(2024), All, Root}

\* The orders in which fs::read_dir can yield the project folders.
Listings(self, f) ==
    Bind(list_project_folders(self, f, All), LAMBDA folders :
        Orders(IF folders.ok THEN folders.val ELSE {}))

\* Paths a caller may ask to open: project folders, a record file, a folder
\* without record file, a file that is no record file, and a path where
\* nothing is.
PathLists(self, f) ==
    LET folders == list_project_folders(self, f, All)
        some == (IF folders.ok THEN folders.val ELSE {})
                \cup {x.path : x \in {y \in f.files : starts_with(y.path, self.working)}}
                \cup {self.templates, TemplateFile(self).path, join(self.working, <<s_zed>>)}
    IN  {<<>>} \cup {<<a>> : a \in some} \cup {<<a, b>> : a \in some, b \in some}

InitSearch ==
    /\ \E git \in BOOLEAN : storage = Some(ConfigStorage(git))
    /\ fs \in SearchedFileSystems(storage.v)
    /\ next_id = 1
    /\ result = Idle
    /\ last_archive = NoArchive

SearchProjects ==
    /\ Ready
    /\ \E directory \in Directories, search_term \in SearchTerms,
          listing \in Listings(storage.v, fs), git_statuses \in BOOLEAN :
          result' = Call("search_projects",
                         <<directory, search_term, listing, git_statuses>>,
                         Out(fs, search_projects(storage.v, fs, directory, search_term,
                                                 listing, git_statuses)))
    /\ UNCHANGED <<fs, storage, next_id, last_archive>>

SearchProjectsAny ==
    /\ Ready
    /\ \E directory \in Directories, search_terms \in SearchTermLists,
          listing \in Listings(storage.v, fs), git_statuses \in BOOLEAN :
          result' = Call("search_projects_any",
                         <<directory, search_terms, listing, git_statuses>>,
                         Out(fs, search_projects_any(storage.v, fs, directory, search_terms,
                                                     listing, git_statuses)))
    /\ UNCHANGED <<fs, storage, next_id, last_archive>>

OpenProjectsOf ==
    /\ Ready
    /\ \E listing \in Listings(storage.v, fs), git_statuses \in BOOLEAN :
          \E selection \in {DirAndSearch(d, t) : d \in Directories, t \in SearchTermLists}
                            \cup {Dir(d) : d \in Directories}
                            \cup {Paths(p) : p \in PathLists(storage.v, fs)}
                            \cup {Uninitialized} :
             result' = Call("open_projects", <<selection, listing, git_statuses>>,
                            Out(fs, open_projects(storage.v, fs, selection, listing,
                                                  git_statuses)))
    /\ UNCHANGED <<fs, storage, next_id, last_archive>>

NextSearch ==
    \/ SearchProjects
    \/ SearchProjectsAny
    \/ OpenProjectsOf
    \/ Return

SpecSearch == InitSearch /\ [][NextSearch]_vars

-----------------------------------------------------------------------------
(* The operations that move and delete projects, with what git answers and *)
(* what the confirmation closure answers as inputs of the calls, on        *)
(* storages that hold projects and on storages that are not set up.  The   *)
(* log level is above info and the build is without git_statuses for the   *)
(* batch operations; Spec and SpecSearch take these in.                    *)

MaxSynced == 2

\* The paths of one call of open_paths, each opened by a worker.
MaxWorkers == 3

InitSync ==
    /\ \E git \in BOOLEAN : storage = Some(ConfigStorage(git))
    /\ fs \in {Populate(storage.v, UsedFileSystem(storage.v), fills, archived, count) :
                  fills \in FillChoices, archived \in SUBSET (1..MaxSynced),
                  count \in 0..MaxSynced}
               \cup FreshFileSystems(storage.v)
    /\ next_id = MaxSynced + 1
    /\ result = Idle
    /\ last_archive = NoArchive

SyncTermLists == {<<s_N1>>, <<s_o, s_foo>>, <<s_N1, s_Party>>, <<s_o, s_foo, s_Party>>}

ArchiveProjectStaged ==
    /\ Ready
    /\ \E project \in OpenProjects(storage.v, fs), y \in Years, staged \in BOOLEAN :
          LET out == archive_project(storage.v, fs, project, y, staged)
          IN  /\ fs' = out.fs
              /\ result' = Call("archive_project", <<project, y, staged>>, out)
    /\ UNCHANGED <<storage, next_id, last_archive>>

ArchiveProjectsIfStaged ==
    /\ Ready
    /\ \E search_terms \in SyncTermLists, manual_year \in {NoneInt, Some(2024)},
          confirm \in BOOLEAN \X BOOLEAN, listing \in Listings(storage.v, fs),
          staged \in BOOLEAN :
          LET out == archive_projects_if(storage.v, fs, search_terms, manual_year, confirm,
                                         FALSE, listing, FALSE, staged)
          IN  /\ fs' = out.fs
              /\ result' = Call("archive_projects_if",
                                <<search_terms, manual_year, confirm, listing, staged>>,
                                out)
    /\ UNCHANGED <<storage, next_id, last_archive>>

UnarchiveProjectsStaged ==
    /\ Ready
    /\ \E y \in Years, search_terms \in SyncTermLists,
          listing \in Listings(storage.v, fs), staged \in BOOLEAN :
          LET out == unarchive_projects(storage.v, fs, y, search_terms, listing, FALSE,
                                        staged)
          IN  /\ fs' = out.fs
              /\ result' = Call("unarchive_projects",
                                <<y, search_terms, listing, staged>>, out)
    /\ UNCHANGED <<storage, next_id, last_archive>>

DeleteProjectIfStaged ==
    /\ Ready
    /\ \E project \in OpenProjects(storage.v, fs), confirmed \in BOOLEAN, staged \in BOOLEAN :
          LET out == delete_project_if(storage.v, fs, project, confirmed, staged)
          IN  /\ fs' = out.fs
              /\ result' = Call("delete_project_if", <<project, confirmed, staged>>, out)
    /\ UNCHANGED <<storage, next_id, last_archive>>

OpenProjectsDir ==
    /\ Ready
    /\ \E directory \in {Working, All}, listing \in Listings(storage.v, fs),
          git_statuses \in BOOLEAN :
          result' = Call("open_projects_dir", <<directory, listing, git_statuses>>,
                         Out(fs, open_projects_dir(storage.v, fs, directory, listing,
                                                   git_statuses)))
    /\ UNCHANGED <<fs, storage, next_id, last_archive>>

GetRepository ==
    /\ Ready
    /\ result' = Call("get_repository", <<>>, Out(fs, get_repository(storage.v)))
    /\ UNCHANGED <<fs, storage, next_id, last_archive>>

NextSync ==
    \/ ArchiveProjectStaged
    \/ ArchiveProjectsIfStaged
    \/ UnarchiveProjectsStaged
    \/ DeleteProjectIfStaged
    \/ OpenProjectsDir
    \/ GetRepository
    \/ Return

SpecSync == InitSync /\ [][NextSync]_vars

-----------------------------------------------------------------------------
(* Searching where a project has an index that is greater than "zzzz".     *)

\* The projects are filled without index, with index R007, and with the
\* index zzzzz.
InitSort ==
    /\ \E git \in BOOLEAN : storage = Some(ConfigStorage(git))
    /\ LET high == [prefix |-> None, year |-> Some(2024), ready |-> FALSE,
                    index |-> Some(<<"z","z","z","z","z">>)]
           late == CHOOSE x \in Fills : x.index.some
           none == CHOOSE x \in Fills : ~x.index.some
       IN  fs \in {Populate(storage.v, UsedFileSystem(storage.v), fills, archived, count) :
                     fills \in {<<none, high, late>>, <<high, late, none>>,
                                <<late, none, high>>},
                     archived \in SUBSET (1..Len(SearchNames)),
                     count \in 0..Len(SearchNames)}
    /\ next_id = 1
    /\ result = Idle
    /\ last_archive = NoArchive

NextSort ==
    \/ SearchProjects
    \/ Return

SpecSort == InitSort /\ [][NextSort]_vars

-----------------------------------------------------------------------------
(* open_paths with rayon (mod.rs:807-830): par_iter hands each path to a   *)
(* worker, the workers open their paths in any order, and collect puts the *)
(* projects together when the workers are done.  While the workers run,    *)
(* `result` holds one slot for each path and, as trace, the paths in the   *)
(* order in which they were opened.                                        *)

\* The slot of a path that no worker has opened yet.
Pending == [done |-> FALSE, opened |-> Err("none")]

\* A collect in which two workers write to the same place of the list: of
\* the projects of the first two paths only the second is kept.
collect_racing(slots) ==
    IF \E i \in 1..Len(slots) : slots[i].done /\ ~slots[i].opened.ok /\ slots[i].opened.err = "Panic"
    THEN Err("Panic")
    ELSE Ok(SelectSeq([i \in 1..Len(slots) |->
                          IF i = 1 /\ Len(slots) > 1 /\ slots[2].opened.ok
                          THEN Err("Lost") ELSE slots[i].opened],
                      LAMBDA o : o.ok))

\* mod.rs:810-812: collect of the filter_map, which keeps the projects of
\* the paths that opened in the order of the paths; a panic of a worker is
\* the panic of the call.
collect(slots) ==
    IF \E i \in 1..Len(slots) : slots[i].done /\ ~slots[i].opened.ok /\ slots[i].opened.err = "Panic"
    THEN Err("Panic")
    ELSE Ok([i \in 1..Cardinality({j \in 1..Len(slots) : slots[j].opened.ok}) |->
                slots[CHOOSE k \in 1..Len(slots) :
                         /\ slots[k].opened.ok
                         /\ Cardinality({j \in 1..k : slots[j].opened.ok}) = i].opened.val])

\* mod.rs:814-829: the projects get their git status where the build has
\* the feature and a repository is attached.
with_git_statuses(self, projects, git_statuses) ==
    IF projects.ok /\ git_statuses /\ self.repository
    THEN Ok([i \in 1..Len(projects.val) |->
                set_git_status(projects.val[i], get_status(dir(projects.val[i])))])
    ELSE projects

InitPar ==
    /\ \E git \in BOOLEAN : storage = Some(ConfigStorage(git))
    /\ fs \in {Populate(storage.v, UsedFileSystem(storage.v), fills, archived, count) :
                  fills \in FillChoices, archived \in SUBSET {1},
                  count \in 1..Len(SearchNames)}
    /\ next_id = 1
    /\ result = Idle
    /\ last_archive = NoArchive

\* mod.rs:809: open_paths is called and par_iter splits the paths.
ParIter ==
    /\ Ready
    /\ \E git_statuses \in BOOLEAN :
          \E paths \in UNION {[1..n -> list_project_folders(storage.v, fs, All).val
                                         \cup {storage.v.templates,
                                               join(storage.v.working, <<s_zed>>)}] :
                                  n \in 0..MaxWorkers} :
             result' = [op |-> "par_iter", args |-> <<paths, git_statuses>>,
                        ret |-> Ok([i \in 1..Len(paths) |-> Pending]), trace |-> <<>>]
    /\ UNCHANGED <<fs, storage, next_id, last_archive>>

\* mod.rs:810: a worker opens a path that none has opened.
WorkerOpens ==
    /\ result.op = "par_iter"
    /\ \E i \in 1..Len(result.ret.val) :
          /\ ~result.ret.val[i].done
          /\ result' = [result EXCEPT
                           !.ret = Ok([result.ret.val EXCEPT ![i] =
                                          [done |-> TRUE,
                                           opened |-> open_project(fs, result.args[1][i])]]),
                           !.trace = @ \o <<Event("open", <<result.args[1][i]>>,
                                                  open_project(fs, result.args[1][i]).ok)>>]
    /\ UNCHANGED <<fs, storage, next_id, last_archive>>

\* mod.rs:811-829: the workers are done, or one has panicked; open_paths
\* returns.
Collect ==
    /\ result.op = "par_iter"
    /\ \/ \A i \in 1..Len(result.ret.val) : result.ret.val[i].done
       \/ ~collect(result.ret.val).ok
    /\ result' = [op |-> "open_paths", args |-> result.args,
                  ret |-> with_git_statuses(storage.v, collect(result.ret.val),
                                            result.args[2]),
                  trace |-> result.trace]
    /\ UNCHANGED <<fs, storage, next_id, last_archive>>

\* The caller takes the projects.
Opened ==
    /\ result.op = "open_paths"
    /\ Return

NextPar ==
    \/ ParIter
    \/ WorkerOpens
    \/ Collect
    \/ Opened

SpecPar == InitPar /\ [][NextPar]_vars

-----------------------------------------------------------------------------
(* Creating projects where L::from_template or fs::copy may fail, on       *)
(* storages that are set up and on storages that lack a part of the        *)
(* layout.                                                                 *)

InitCreate ==
    /\ \E git \in BOOLEAN : storage = Some(ConfigStorage(git))
    /\ fs \in {UsedFileSystem(storage.v)} \cup FreshFileSystems(storage.v)
    /\ next_id = 1
    /\ result = Idle
    /\ last_archive = NoArchive

\* create_project; `outcome` is whether from_template and fs::copy succeed.
CreateProjectOrFail ==
    /\ Ready
    /\ next_id <= MaxProjects
    /\ \E project_name \in ProjectNames, template_name \in TemplateNames, fill \in Fills,
          outcome \in {<<TRUE, TRUE>>, <<FALSE, TRUE>>, <<TRUE, FALSE>>} :
          LET out == create_project(storage.v, fs, next_id, project_name, template_name,
                                    fill, outcome[1], outcome[2])
          IN  /\ fs' = out.fs
              /\ result' = Call("create_project", <<project_name, template_name, outcome>>,
                                out)
              /\ next_id' = IF out.ret.ok THEN next_id + 1 ELSE next_id
    /\ UNCHANGED <<storage, last_archive>>

NextCreate ==
    \/ CreateProjectOrFail
    \/ Return

SpecCreate == InitCreate /\ [][NextCreate]_vars

-----------------------------------------------------------------------------
(* Listing, on storages in which there also are hidden directories and, in *)
(* the archive, a directory that is named after a year but for a suffix.   *)
(* The folders are returned in an order of fs::read_dir.                   *)

InitList ==
    /\ \E git \in BOOLEAN : storage = Some(ConfigStorage(git))
    /\ \E base \in {Populate(storage.v, UsedFileSystem(storage.v), fills, archived, count) :
                        fills \in FillChoices, archived \in SUBSET (1..MaxSynced),
                        count \in 0..MaxSynced}
                     \cup FreshFileSystems(storage.v),
          more \in SUBSET {storage.v.working \o << <<".">> \o s_zed >>,
                           storage.v.working \o <<s_zed>>,
                           storage.v.archive \o << <<".">> \o s_zed >>,
                           storage.v.archive \o << to_string(2024), <<".">> \o s_zed >>,
                           storage.v.archive \o << to_string(2023) \o <<".">> \o s_misc >>} :
          fs = [base EXCEPT !.dirs = @ \cup {d \in more : parent(d).v \in @}]
    /\ next_id = MaxSynced + 1
    /\ result = Idle
    /\ last_archive = NoArchive

ListProjectFolders ==
    /\ Ready
    /\ \E directory \in {Working, Archive(2023), Archive(2024), Year(2024), All, Root} :
          LET folders == list_project_folders(storage.v, fs, directory)
          IN  \E listing \in Orders(IF folders.ok THEN folders.val ELSE {}) :
                 result' = Call("list_project_folders", <<directory>>,
                                Out(fs, IF folders.ok THEN Ok(listing) ELSE folders))
    /\ UNCHANGED <<fs, storage, next_id, last_archive>>

ListEmptyProjectDirs ==
    /\ Ready
    /\ \E directory \in {Working, Archive(2024), All, Root} :
          LET dirs == list_empty_project_dirs(storage.v, fs, directory)
          IN  \E listing \in Orders(IF dirs.ok THEN dirs.val ELSE {}) :
                 result' = Call("list_empty_project_dirs", <<directory>>,
                                Out(fs, IF dirs.ok THEN Ok(listing) ELSE dirs))
    /\ UNCHANGED <<fs, storage, next_id, last_archive>>

\* The filter says true of every path, or of the paths in the working
\* directory only.
FilterProjectFiles ==
    /\ Ready
    /\ \E directory \in {Working, Archive(2024), All, Root}, always \in BOOLEAN :
          LET accepted == {p \in fs.dirs \cup {x.path : x \in fs.files} :
                              always \/ starts_with(p, storage.v.working)}
              files == filter_project_files(storage.v, fs, directory, accepted)
          IN  \E listing \in Orders(IF files.ok THEN files.val ELSE {}) :
                 result' = Call("filter_project_files", <<directory, always>>,
                                Out(fs, IF files.ok THEN Ok(listing) ELSE files))
    /\ UNCHANGED <<fs, storage, next_id, last_archive>>

NextList ==
    \/ ListProjectFolders
    \/ ListEmptyProjectDirs
    \/ FilterProjectFiles
    \/ Return

SpecList == InitList /\ [][NextList]_vars

-----------------------------------------------------------------------------
(* The properties of the storage.                                          *)

\* The record files of a file system: the files with the record extension.
RecordFiles(f) == {x \in f.files : extension(x.path) = Some(file_extension)}

\* The record files below the working directory and below the archive.
InWorking(f) == {x \in RecordFiles(f) : starts_with(x.path, storage.v.working)}
InArchive(f) == {x \in RecordFiles(f) : starts_with(x.path, storage.v.archive)}

\* C1: whatever operations have run (create, archive, unarchive, the batch
\* forms, delete), a record is in one place only: no record has its file in
\* two directories, so never in working and in an archive year at once and
\* never in two archive years.  A record is told from another by what it
\* was created as, not by its name: a new project may take the name of an
\* archived one.
C1_OnePlace ==
    \A x \in RecordFiles(fs), y \in RecordFiles(fs) :
        x.data.id = y.data.id => x.path = y.path

\* C1 witness: after archiving and a successful unarchive_projects, one
\* record is back in working while another one is in the archive.
C1_Witness ==
    /\ result.op = "unarchive_projects" /\ result.ret.ok /\ Len(result.ret.val) > 0
    /\ InWorking(fs) # {} /\ \E x \in InArchive(fs) : x.data.id > 0


\* The call that is returning unarchives the directory that the call before
\* it, a successful archive_project of a project of the working directory,
\* moved its project to.
UnarchivesLastArchive ==
    /\ result.op = "unarchive_project_dir"
    /\ last_archive.some
    /\ result.args[1] = last_archive.v.moved_files[2]
    /\ starts_with(last_archive.v.moved_files[1], storage.v.working)

C3_ArchiveName ==
    (result.op = "archive_project" /\ result.ret.ok) =>
        LET project == result.args[1]
            target  == result.ret.val[2]
        IN  /\ Len(target) = Len(storage.v.archive) + 2
            /\ parent(parent(target).v).v = storage.v.archive
            /\ file_name(parent(target).v).v = to_string(result.args[2])
            /\ file_name(target).v =
                  IF project.data.prefix.some
                  THEN project.data.prefix.v \o <<"_">> \o ident(project)
                  ELSE ident(project)
            /\ is_dir(fs, target)
            /\ [path |-> join(target, <<file_name(project.file).v>>), data |-> project.data]
                  \in fs.files

\* C3 witness: prefix R007, ident birthday-party and year 2024 give
\* archive/2024/R007_birthday-party.
C3_Witness ==
    /\ result.op = "archive_project" /\ result.ret.ok
    /\ result.args[2] = 2024
    /\ result.ret.val[2] =
          storage.v.archive \o
             << <<"2","0","2","4">>,
                <<"R","0","0","7","_","b","i","r","t","h","d","a","y","-","p","a","r","t","y">> >>
    /\ is_dir(fs, result.ret.val[2])


\* A step in which archive_project(project, year) is called and succeeds.
ArchiveSucceeds ==
    result = Idle /\ result'.op = "archive_project" /\ result'.ret.ok

\* What a step that moves the directory `old` to `new` does: `old` is gone,
\* `new` holds what `old` held, and nothing else changes but for the year
\* directory that may have been created.
MovedOnly(old, new, year_dir) ==
    /\ ~exists(fs', old)
    /\ subtree_dirs(fs', old) = {} /\ subtree_files(fs', old) = {}
    /\ subtree_dirs(fs', new) = {rebase(d, old, new) : d \in subtree_dirs(fs, old)}
    /\ subtree_files(fs', new) =
          {[path |-> rebase(x.path, old, new), data |-> x.data] : x \in subtree_files(fs, old)}
    /\ fs'.dirs \ subtree_dirs(fs', new) = (fs.dirs \ subtree_dirs(fs, old)) \cup {year_dir}
    /\ fs'.files \ subtree_files(fs', new) = fs.files \ subtree_files(fs, old)

\* C4 as the specification has it: every successful archive_project is a
\* move, after which the source path does not exist.
C4_AlwaysMoves ==
    [][ArchiveSucceeds =>
          /\ result'.ret.val = <<dir(result'.args[1]), result'.ret.val[2]>>
          /\ is_dir(fs', result'.ret.val[2])
          /\ MovedOnly(result'.ret.val[1], result'.ret.val[2], parent(result'.ret.val[2]).v)]_vars

\* C4, amended: a successful archive_project(project, year) returns
\* <<old path, new path>>, old being the project's directory.  When the two
\* differ it is a move and no copy: the old path is gone, the new one holds
\* the same content, and no other directory or file changes.  When the
\* project already is at its place in that year's archive the two are the
\* same path, and the call changes nothing.
C4_MovesUnlessInPlace ==
    [][ArchiveSucceeds =>
          /\ result'.ret.val = <<dir(result'.args[1]), result'.ret.val[2]>>
          /\ is_dir(fs', result'.ret.val[2])
          /\ IF result'.ret.val[1] # result'.ret.val[2]
             THEN MovedOnly(result'.ret.val[1], result'.ret.val[2],
                            parent(result'.ret.val[2]).v)
             ELSE fs' = fs]_vars

\* C4 witness: a project of the working directory has been moved into an
\* archive where another project remains, and its old path is gone.
C4_Witness ==
    /\ result.op = "archive_project" /\ result.ret.ok
    /\ starts_with(result.ret.val[1], storage.v.working)
    /\ ~exists(fs, result.ret.val[1])
    /\ \E x \in subtree_files(fs, result.ret.val[2]) : x.data = result.args[1].data
    /\ \E x \in RecordFiles(fs) : x.data.id > 0 /\ x.data.id # result.args[1].data.id


\* A step in which unarchive_project_dir(archived_dir) is called.
UnarchiveDirCalled == result = Idle /\ result'.op = "unarchive_project_dir"

\* The structural preconditions of unarchiving: the path is below the
\* archive root, is not the archive root, and the name of its parent
\* directory is an integer, a year.
Structural(archived_dir) ==
    /\ starts_with(archived_dir, storage.v.archive)
    /\ archived_dir # storage.v.archive
    /\ parent(archived_dir).some
    /\ file_name(parent(archived_dir).v).some
    /\ parse_i32(file_name(parent(archived_dir).v).v).some

\* C5 as the specification has it: unarchiving a path that fails a
\* structural precondition fails with InvalidDirStructure, whatever the file
\* system holds, and moves nothing.
C5_StructureDecides ==
    [][(UnarchiveDirCalled /\ ~Structural(result'.args[1])) =>
          /\ ~result'.ret.ok
          /\ result'.ret.err = "InvalidDirStructure"
          /\ fs' = fs]_vars

\* The record files directly inside a directory.
RecordFilesIn(f, directory) == {x \in RecordFiles(f) : child_of(x.path, directory)}

\* C6: when the path satisfies the structural preconditions and the
\* directory working/<name>, <name> being the stem of the record file in the
\* archived directory, exists already, unarchive_project_dir fails with
\* ProjectFileExists and leaves every directory and file as it was.
C6_OccupiedSlot ==
    [][(/\ UnarchiveDirCalled
        /\ Structural(result'.args[1])
        /\ \E x \in RecordFilesIn(fs, result'.args[1]) :
              exists(fs, storage.v.working \o <<file_stem(x.path).v>>)) =>
          /\ ~result'.ret.ok
          /\ result'.ret.err = "ProjectFileExists"
          /\ fs' = fs]_vars

\* C6 witness: an archived project whose name a project of the working
\* directory has taken was not unarchived.
C6_Witness ==
    /\ result.op = "unarchive_project_dir"
    /\ result.ret.err = "ProjectFileExists"
    /\ Structural(result.args[1])
    /\ \E x \in RecordFilesIn(fs, result.args[1]), y \in InWorking(fs) :
          /\ x.data.id # y.data.id
          /\ file_name(x.path) = file_name(y.path)
          /\ y.path = storage.v.working \o <<file_stem(x.path).v, file_name(x.path).v>>

ConstructionReturned == result.op \in {"try_new", "try_new_with_git"}

\* C8 as the specification has it: try_new and try_new_with_git with a root
\* that is not absolute fail with StoragePathNotAbsolute and give no
\* storage; try_new with an absolute root succeeds, and working, archive,
\* templates and extras are the root joined with their names, all absolute.
C8_RootDecides ==
    ConstructionReturned =>
        IF ~is_absolute(result.args[1])
        THEN ~result.ret.ok /\ result.ret.err = "StoragePathNotAbsolute" /\ ~storage.some
        ELSE result.op = "try_new" =>
                /\ result.ret.ok /\ storage = Some(result.ret.val)
                /\ storage.v.root = result.args[1]
                /\ storage.v.working = join(result.args[1], result.args[2])
                /\ storage.v.archive = join(result.args[1], result.args[3])
                /\ storage.v.templates = join(result.args[1], result.args[4])
                /\ storage.v.extras = join(result.args[1], <<s_extras>>)
                /\ \A p \in {storage.v.root, storage.v.working, storage.v.archive,
                             storage.v.templates, storage.v.extras} : is_absolute(p)

\* The four directories of the layout that create_dirs makes and
\* health_check looks at.
Layout == {storage.v.root, storage.v.working, storage.v.archive, storage.v.templates}

\* C9: health_check succeeds if and only if root, working, archive and
\* templates are all directories that exist; otherwise it fails with
\* InvalidDirStructure; it never changes the file system.
C9_HealthCheck ==
    [][(result = Idle /\ result'.op = "health_check") =>
          /\ result'.ret.ok <=> \A p \in Layout : is_dir(fs, p)
          /\ ~result'.ret.ok => result'.ret.err = "InvalidDirStructure"
          /\ fs' = fs]_vars

\* C9 witness: health_check has failed where only the templates directory
\* is missing.
C9_Witness ==
    /\ result.op = "health_check"
    /\ result.ret.err = "InvalidDirStructure"
    /\ {p \in Layout : ~is_dir(fs, p)} = {storage.v.templates}

\* C10: a successful create_dirs has made the directories of the layout
\* that were absent and has changed nothing else, and create_dirs called
\* again right after it succeeds and leaves the file system as it is.
C10_CreateDirsIdempotent ==
    [][(result = Idle /\ result'.op = "create_dirs" /\ result'.ret.ok) =>
          /\ fs'.dirs = fs.dirs \cup Layout
          /\ fs'.files = fs.files
          /\ create_dirs(storage.v, fs').ret.ok
          /\ create_dirs(storage.v, fs').fs = fs']_vars

\* C10 witness: create_dirs has succeeded and has made the templates
\* directory, which holds no template yet, next to directories that were
\* there before.
C10_Witness ==
    /\ result.op = "create_dirs" /\ result.ret.ok
    /\ \A p \in Layout : is_dir(fs, p)
    /\ children(fs, storage.v.templates) = {}


\* C11: create_archive(year), called when the archive root exists, returns
\* the path archive/<year>, makes that directory when it is absent and
\* changes nothing else; called again it returns the same path without
\* error and leaves everything, the projects in archive/<year> included, as
\* it is.
C11_CreateArchiveIdempotent ==
    [][(result = Idle /\ result'.op = "create_archive" /\ is_dir(fs, storage.v.archive)) =>
          /\ result'.ret.ok
          /\ result'.ret.val = storage.v.archive \o <<to_string(result'.args[1])>>
          /\ fs'.dirs = fs.dirs \cup {result'.ret.val}
          /\ fs'.files = fs.files
          /\ create_archive(storage.v, fs', result'.args[1]).ret = result'.ret
          /\ create_archive(storage.v, fs', result'.args[1]).fs = fs']_vars

\* C11 witness: create_archive(2024) has returned archive/2024, which was
\* there already and holds a project.
C11_Witness ==
    /\ result.op = "create_archive" /\ result.ret.ok
    /\ result.ret.val = storage.v.archive \o << <<"2","0","2","4">> >>
    /\ \E x \in RecordFiles(fs) : starts_with(x.path, result.ret.val)


\* A step in which archive_projects_if(search_terms, manual_year, confirm)
\* is called.
ArchiveIfCalled == result = Idle /\ result'.op = "archive_projects_if"

\* The name a record file is searched by, in lower case.
SearchText(x) == to_lowercase(file_stem(x.path).v)

\* No term matches a record of the working directory.  A term matches the
\* records whose name contains it in lower case, and a term N<k> matches the
\* k-th record in the order of the indices, if there are that many.
NoTermMatches(f, search_terms) ==
    \A i \in 1..Len(search_terms) :
        /\ \A x \in InWorking(f) : ~contains(SearchText(x), to_lowercase(search_terms[i]))
        /\ ~(/\ search_index(search_terms[i]).some
             /\ search_index(search_terms[i]).v \in 1..Cardinality(InWorking(f)))

\* C12: archive_projects_if whose terms match no record of the working
\* directory fails with ProjectDoesNotExist and moves nothing.
C12_NothingToArchive ==
    [][(ArchiveIfCalled /\ NoTermMatches(fs, result'.args[1])) =>
          /\ ~result'.ret.ok
          /\ result'.ret.err = "ProjectDoesNotExist"
          /\ fs' = fs]_vars

\* C12 witness: terms were given and the working directory holds records,
\* but no term matched one.
C12_Witness ==
    /\ result.op = "archive_projects_if"
    /\ result.ret.err = "ProjectDoesNotExist"
    /\ Len(result.args[1]) > 0
    /\ InWorking(fs) # {}
    /\ NoTermMatches(fs, result.args[1])


\* The projects that the search of an archive_projects_if call finds in the
\* file system f: those of the working directory that a term matches.
Matched(f, args) ==
    Range(search_projects_any(storage.v, f, Working, args[1], args[4], FALSE).val)

\* The project passes the gate of archive_projects_if.
Gated(project, args) == is_ready_for_archive(project) \/ args[3]

\* In this step the project leaves its place for the archive: its record
\* file is gone from where it was and is below the archive root.
MovedToArchive(project) ==
    /\ \A x \in RecordFiles(fs') : x.path = project.file => x.data.id # project.data.id
    /\ \E x \in InArchive(fs') : x.data = project.data

\* In this step the directory of the project and all in it stay as they are.
Stays(project) ==
    /\ subtree_dirs(fs', dir(project)) = subtree_dirs(fs, dir(project))
    /\ subtree_files(fs', dir(project)) = subtree_files(fs, dir(project))
    /\ is_dir(fs', dir(project))

\* C13 as the specification has it: every matched project is moved into the
\* archive if and only if it is ready or force is set, and a matched project
\* that is not ready stays as it is when force is not set, the call
\* returning success.
C13_GateDecides ==
    [][ArchiveIfCalled =>
          \A project \in Matched(fs, result'.args) :
              /\ MovedToArchive(project) <=> Gated(project, result'.args)
              /\ ~Gated(project, result'.args) => Stays(project) /\ result'.ret.ok]_vars

\* C13, amended: when archive_projects_if returns success, every matched
\* project has been moved into the archive if and only if it is ready or
\* force is set.  A matched project that is not ready stays as it is when
\* force is not set, whether the call succeeds or not, and skipping is no
\* failure: a call that only skips returns success and changes nothing.
C13_GateDecidesOnSuccess ==
    [][ArchiveIfCalled =>
          /\ \A project \in Matched(fs, result'.args) :
                /\ result'.ret.ok =>
                      (MovedToArchive(project) <=> Gated(project, result'.args))
                /\ ~Gated(project, result'.args) => Stays(project)
          /\ (/\ Matched(fs, result'.args) # {}
              /\ \A project \in Matched(fs, result'.args) : ~Gated(project, result'.args))
                => result'.ret.ok /\ fs' = fs]_vars

\* C13 witness: without force, a call has archived a ready project and has
\* left a matched project that is not ready in the working directory.
C13_Witness ==
    /\ result.op = "archive_projects_if" /\ result.ret.ok
    /\ ~result.args[3]
    /\ Len(result.ret.val) > 0
    /\ \E x \in InWorking(fs), i \in 1..Len(result.args[1]) :
          ~x.data.ready /\ contains(SearchText(x), to_lowercase(result.args[1][i]))


\* The year archive_projects_if is to archive the project into: the year
\* given, or else the project's own.
YearFor(project, args) == IF args[2].some THEN args[2] ELSE year_of(project)

\* C14 as the specification has it: a project that archive_projects_if
\* archives lands in archive/<manual_year> whenever manual_year is given,
\* whether or not the project has a year of its own, and in
\* archive/<project's year> when it is not given; the call fails without
\* moving the project when there is neither, and only then for want of a
\* year.
C14_YearChoice ==
    [][ArchiveIfCalled =>
          /\ \A project \in Matched(fs, result'.args) :
                /\ MovedToArchive(project) =>
                      /\ YearFor(project, result'.args).some
                      /\ \E x \in InArchive(fs') :
                            /\ x.data = project.data
                            /\ parent(parent(x.path).v).v =
                                  storage.v.archive \o
                                     <<to_string(YearFor(project, result'.args).v)>>
                /\ (Gated(project, result'.args) /\ ~YearFor(project, result'.args).some) =>
                      ~result'.ret.ok /\ Stays(project)
          /\ result'.args[2].some => result'.ret.err # "Panic"]_vars


-----------------------------------------------------------------------------
(* Searching and opening (SpecSearch).                                     *)

SearchCalled == result.op = "search_projects"

\* All projects of the directory a search was called on, sorted by index.
SortedRecords(directory, listing) ==
    Bind(open_projects_dir(storage.v, fs, directory, listing, FALSE), LAMBDA opened :
        IF opened.ok THEN Ok(sort_by_index(opened.val)) ELSE opened)

\* A term of the form N<digits>.
IsPositional(term) ==
    Len(term) > 1 /\ term[1] = "N" /\ \A i \in 2..Len(term) : IsDigit(term[i])

\* The projects of a sequence without their git status.
Unannotated(projects) ==
    [i \in 1..Len(projects) |-> set_git_status(projects[i], None)]

\* C15 as the specification has it: search_projects with a term "N" and
\* digits denoting k returns exactly one project, the one at position k of
\* the index-sorted projects of the directory, and nothing when there is no
\* such position.
C15_PositionalSearch ==
    (SearchCalled /\ IsPositional(result.args[2]) /\ result.ret.ok) =>
        LET sorted == SortedRecords(result.args[1], result.args[3]).val
            k == digits_value(Tail(result.args[2]))
        IN  Unannotated(result.ret.val) =
               IF k \in 1..Len(sorted) THEN <<sorted[k]>> ELSE <<>>

\* C16 as the specification has it: search_projects with a term that is not
\* "N" and digits, "N" and other characters included, returns exactly the
\* projects of the directory whose text contains the lower-cased term, in
\* index-sorted order.
C16_SubstringSearch ==
    (SearchCalled /\ ~IsPositional(result.args[2]) /\ result.ret.ok) =>
        LET sorted == SortedRecords(result.args[1], result.args[3]).val
        IN  Unannotated(result.ret.val) =
               SelectIn(sorted, {sorted[i] : i \in {j \in 1..Len(sorted) :
                   matches_search(sorted[j], to_lowercase(result.args[2]))}})


SearchAnyCalled == result.op = "search_projects_any"

\* What search_projects returns for each of the terms, in their order.
PerTerm(directory, search_terms, listing, git_statuses) ==
    [i \in 1..Len(search_terms) |->
        search_projects(storage.v, fs, directory, search_terms[i], listing, git_statuses)]

\* The number of projects found for the first n terms.
RECURSIVE FoundBefore(_, _)
FoundBefore(found, n) ==
    IF n = 0 THEN 0 ELSE FoundBefore(found, n - 1) + Len(found[n].val)

\* C17: search_projects_any returns what search_projects returns for each
\* term, one after the other in the order of the terms and nothing dropped:
\* its length is the sum of the lengths, a project is in it iff some term
\* finds it, and a project that j terms find is in it j times.
C17_SearchAnyConcatenates ==
    SearchAnyCalled =>
        LET found == PerTerm(result.args[1], result.args[2], result.args[3], result.args[4])
            terms == 1..Len(found)
        IN  (\A i \in terms : found[i].ok) =>
               /\ result.ret.ok
               /\ Len(result.ret.val) = FoundBefore(found, Len(found))
               /\ \A i \in terms :
                     SubSeq(result.ret.val, FoundBefore(found, i - 1) + 1,
                            FoundBefore(found, i)) = found[i].val
               /\ \A project \in UNION {Range(found[i].val) : i \in terms}
                                 \cup Range(result.ret.val) :
                     Cardinality({n \in 1..Len(result.ret.val) : result.ret.val[n] = project})
                        = Cardinality({i \in terms : project \in Range(found[i].val)})

\* search_projects_any has returned a project twice that two terms find,
\* and left out one that no term finds.
C17_Witness ==
    /\ SearchAnyCalled
    /\ result.ret.ok
    /\ Len(result.args[2]) = 2
    /\ \E m, n \in 1..Len(result.ret.val) : m < n /\ result.ret.val[m] = result.ret.val[n]
    /\ \E project \in Range(SortedRecords(result.args[1], result.args[3]).val) :
          set_git_status(project, None) \notin Range(Unannotated(result.ret.val))


OpenCalled == result.op = "open_projects"

\* open_projects has been called with a directory and search terms.
OpenSearchCalled == OpenCalled /\ result.args[1].kind = "DirAndSearch"

\* What open_projects returns for the bare directory of the selection that
\* open_projects was called with.
OfBareDirectory ==
    open_projects(storage.v, fs, Dir(result.args[1].dir), result.args[2], result.args[3])

\* C18 as the specification has it: open_projects of a directory with an
\* empty list of search terms, which the default selection is, returns all
\* projects of the directory, the same as open_projects of the directory
\* alone.
C18_NoTermsMeanAll ==
    (OpenSearchCalled /\ result.args[1].terms = <<>> /\ OfBareDirectory.ok) =>
        result.ret = OfBareDirectory


\* The projects of the directory of the selection that open_projects was
\* called with, sorted by index; none if the directory is none that holds
\* projects.
DirectoryRecords ==
    Bind(SortedRecords(result.args[1].dir, result.args[2]), LAMBDA sorted :
        IF sorted.ok THEN sorted.val ELSE <<>>)

\* A term of the selection matches a project of its directory: the project's
\* text contains the term in lower case, or the term is N<k> and the project
\* is the k-th.
SomeTermMatches ==
    \E i \in 1..Len(result.args[1].terms), j \in 1..Len(DirectoryRecords) :
        \/ contains(to_lowercase(ident(DirectoryRecords[j])),
                    to_lowercase(result.args[1].terms[i]))
        \/ search_index(result.args[1].terms[i]) = Some(j)

\* C19 as the specification has it: open_projects of a directory with search
\* terms fails with NothingFound exactly when no project of the directory
\* matches a term, and when it succeeds it returns at least one project.
C19_NothingFound ==
    OpenSearchCalled =>
        /\ (result.ret = Err("NothingFound")) <=> ~SomeTermMatches
        /\ result.ret.ok => Len(result.ret.val) > 0

\* C19, for what the code does: the above holds when the directory is one
\* that holds projects (Working, Archive, Year, All); for any other directory
\* the call fails with the error of the listing, BadChoice, if there is a
\* term, and with NothingFound if there is none.
C19_NothingFoundInProjectDirectories ==
    OpenSearchCalled =>
        IF SortedRecords(result.args[1].dir, result.args[2]).ok
        THEN /\ (result.ret = Err("NothingFound")) <=> ~SomeTermMatches
             /\ result.ret.ok => Len(result.ret.val) > 0
        ELSE result.ret = IF Len(result.args[1].terms) = 0 THEN Err("NothingFound")
                          ELSE Err("BadChoice")

\* open_projects has failed with NothingFound for terms none of which
\* matches any of the projects that the directory holds.
C19_Witness ==
    /\ OpenSearchCalled
    /\ Len(result.args[1].terms) > 0
    /\ Len(DirectoryRecords) > 0
    /\ result.ret = Err("NothingFound")


\* open_projects has been called with paths.
OpenPathsCalled == OpenCalled /\ result.args[1].kind = "Paths"

\* The paths open_projects was called with that open_project opens.
Opening ==
    {i \in 1..Len(result.args[1].paths) : open_project(fs, result.args[1].paths[i]).ok}

\* C20 as the specification has it: open_projects of paths is never ended by
\* one path; it returns one project for each path that opens and none for a
\* path that does not open, whatever the reason, a path where nothing is
\* included; and giving the projects their git status changes neither their
\* number nor their order.
C20_BestEffortOpen ==
    OpenPathsCalled =>
        /\ result.ret.ok
        /\ Len(result.ret.val) = Cardinality(Opening)
        /\ \A i \in Opening :
              LET project == open_project(fs, result.args[1].paths[i]).val
              IN  Cardinality({n \in 1..Len(result.ret.val) :
                                  set_git_status(result.ret.val[n], None) = project})
                     = Cardinality({j \in Opening :
                                  open_project(fs, result.args[1].paths[j]).val = project})
        /\ Unannotated(result.ret.val) =
              open_paths(storage.v, fs, result.args[1].paths, FALSE).val


-----------------------------------------------------------------------------
(* Moving and deleting with git (SpecSync).                                *)

\* The calls of Repository::add that the call made, in order.
Adds == SelectSeq(result.trace, LAMBDA e : e.kind = "add")

DeleteCalled == result.op = "delete_project_if"

\* C21: delete_project_if returns GitProcessFailed when a repository is
\* attached and git fails to stage the removed directory, and the directory
\* stays removed; it returns success when git succeeds or no repository is
\* attached; and no other operation returns GitProcessFailed.
C21_DeleteStaging ==
    /\ DeleteCalled =>
          /\ (storage.v.repository /\ ~result.args[3]) => result.ret = Err("GitProcessFailed")
          /\ (~storage.v.repository \/ result.args[3]) => result.ret.ok
          /\ result.args[2] => ~exists(fs, dir(result.args[1]))
    /\ (~DeleteCalled /\ ~result.ret.ok) => result.ret.err # "GitProcessFailed"

\* delete_project_if has removed the directory and returned GitProcessFailed.
C21_Witness ==
    /\ DeleteCalled
    /\ result.args[2]
    /\ result.ret = Err("GitProcessFailed")
    /\ ~exists(fs, dir(result.args[1]))
    /\ Len(Adds) = 1


\* A step in which unarchive_projects(year, search_terms) is called and
\* succeeds.
UnarchiveManySucceeds ==
    result = Idle /\ result'.op = "unarchive_projects" /\ result'.ret.ok

\* The projects that the search of that call finds in the archive of the year.
UnarchiveMatched ==
    Range(search_projects_any(storage.v, fs, Archive(result'.args[1]), result'.args[2],
                              result'.args[3], FALSE).val)

\* After the step every matched project is in the working directory and not
\* in the archive of the year, and the paths returned name where it was and
\* where it is.
AllUnarchived ==
    \A project \in UnarchiveMatched :
        /\ \E x \in InWorking(fs') :
              /\ x.data = project.data
              /\ parent(x.path).v \in Range(result'.ret.val)
        /\ \A x \in RecordFiles(fs') :
              starts_with(x.path, storage.v.archive \o <<to_string(result'.args[1])>>)
                 => x.data # project.data
        /\ dir(project) \in Range(result'.ret.val)

\* The step calls Repository::add once, with all the paths returned, after
\* all its renames.
AddedOnceAtTheEnd ==
    /\ Len(SelectSeq(result'.trace, LAMBDA e : e.kind = "add")) = 1
    /\ result'.trace[Len(result'.trace)].kind = "add"
    /\ result'.trace[Len(result'.trace)].paths = result'.ret.val

\* C22 as the specification has it: a successful unarchive_projects leaves
\* every project matched in the archive of the year in the working directory
\* and none in the archive of the year, returns the paths of all of them, and
\* calls Repository::add exactly once, with all these paths, after the last
\* rename.
C22_UnarchiveMany ==
    [][UnarchiveManySucceeds => (AllUnarchived /\ AddedOnceAtTheEnd)]_vars

\* C22, for what the code does: the same, the one call of Repository::add
\* being made when a repository is attached, and none when there is none.
C22_UnarchiveManyWithRepository ==
    [][UnarchiveManySucceeds =>
          /\ AllUnarchived
          /\ IF storage.v.repository THEN AddedOnceAtTheEnd
             ELSE \A i \in 1..Len(result'.trace) : result'.trace[i].kind # "add"]_vars

\* unarchive_projects has moved two projects and called Repository::add once
\* for both.
C22_Witness ==
    /\ result.op = "unarchive_projects"
    /\ result.ret.ok
    /\ Len(result.ret.val) = 4
    /\ Len(SelectSeq(result.trace, LAMBDA e : e.kind = "rename")) = 2
    /\ Len(Adds) = 1
    /\ Adds[1].paths = result.ret.val


-----------------------------------------------------------------------------
(* Creating where a project is (Spec).                                     *)

\* A step in which create_project is called with a name whose slug is the
\* name of a directory in the working directory.
CreateOnExisting ==
    /\ result = Idle
    /\ result'.op = "create_project"
    /\ is_dir(fs, storage.v.working \o <<slugify(result'.args[1])>>)

\* C23: create_project with a name whose slug is the name of a directory
\* that exists in the working directory fails with ProjectDirExists, and
\* that directory and all in it are as before: nothing in the file system
\* changes.
C23_CreationConflict ==
    [][CreateOnExisting => (result'.ret = Err("ProjectDirExists") /\ fs' = fs)]_vars

\* create_project has failed with ProjectDirExists for the name "Birthday
\* Party", and the project birthday-party is in its place in the working
\* directory.
C23_Witness ==
    /\ result.op = "create_project"
    /\ result.ret = Err("ProjectDirExists")
    /\ result.args[1] = s_Birthday_Party
    /\ \E x \in InWorking(fs) :
          x.path = storage.v.working
                      \o <<s_birthday_party, s_birthday_party \o <<".">> \o file_extension>>


-----------------------------------------------------------------------------
(* Listing (SpecList).                                                     *)

ListCalled == result.op = "list_project_folders"

\* The entries directly inside directory p whose name does not begin with '.'.
NonHidden(p) == {c \in children(fs, p) : c[Len(c)][1] # "."}

\* The archives of the years: the entries of the archive whose name is an
\* integer.
YearPartitions ==
    {d \in children(fs, storage.v.archive) : parse_i32(d[Len(d)]).some}

\* What the specification has list_project_folders return.
Listed(directory) ==
    CASE directory.kind = "Working" -> NonHidden(storage.v.working)
      [] directory.kind = "Archive" ->
            NonHidden(storage.v.archive \o <<to_string(directory.year)>>)
      [] directory.kind = "All" ->
            UNION {NonHidden(d) : d \in YearPartitions} \cup NonHidden(storage.v.working)

\* C24 as the specification has it: list_project_folders returns exactly the
\* entries that are not hidden of the working directory for Working, of
\* archive/<year> for Archive(year), and for All of every archive/<year>
\* whose name is an integer and of the working directory; it returns no entry
\* whose name begins with '.', whatever the directory.
C24_ListProjectFolders ==
    ListCalled =>
        /\ (/\ result.args[1].kind \in {"Working", "Archive", "All"}
            /\ result.args[1].kind \in {"Working", "All"} => is_dir(fs, storage.v.working)
            /\ result.args[1].kind = "All" => is_dir(fs, storage.v.archive))
           => /\ result.ret.ok
              /\ Range(result.ret.val) = Listed(result.args[1])
              /\ Len(result.ret.val) = Cardinality(Listed(result.args[1]))
        /\ result.ret.ok => \A p \in Range(result.ret.val) : p[Len(p)][1] # "."


-----------------------------------------------------------------------------
(* Opening the projects of a year (SpecSearch).                            *)

\* open_projects has been called with the directory Year(y) alone.
OpenYearCalled ==
    OpenCalled /\ result.args[1].kind = "Dir" /\ result.args[1].dir.kind = "Year"

\* The records of the year's archive followed by those of the working
\* directory, as open_projects returns the two for the call's listing.
ArchiveThenWorking ==
    LET y == result.args[1].dir.year
        archived == open_projects(storage.v, fs, Dir(Archive(y)), result.args[2], result.args[3])
        working == open_projects(storage.v, fs, Dir(Working), result.args[2], result.args[3])
    IN  IF archived.ok /\ working.ok THEN Ok(archived.val \o working.val) ELSE Err("Io")

\* s is what is left of `all` when the elements at the positions outside
\* `kept` are taken out.
IsRestriction(s, all, kept) ==
    \E at \in [1..Len(s) -> kept] :
        /\ \A m, n \in 1..Len(s) : m < n => at[m] < at[n]
        /\ {at[m] : m \in 1..Len(s)} = kept
        /\ \A m \in 1..Len(s) : s[m] = all[at[m]]

\* C25: open_projects_dir of Year(y) returns the records of Archive(y)
\* followed by the records of the working directory without those whose
\* year is not y: every record returned has the year y, and every record of
\* the two directories with the year y is returned, once and in that order.
C25_YearView ==
    (OpenYearCalled /\ ArchiveThenWorking.ok) =>
        /\ result.ret.ok
        /\ \A i \in 1..Len(result.ret.val) :
              year_of(result.ret.val[i]) = Some(result.args[1].dir.year)
        /\ IsRestriction(result.ret.val, ArchiveThenWorking.val,
                         {i \in 1..Len(ArchiveThenWorking.val) :
                             year_of(ArchiveThenWorking.val[i]) = Some(result.args[1].dir.year)})

\* Year(2024) has been opened where the archive of 2024 and the working
\* directory together hold a record of 2024 and records of another year and
\* of no year: the first is returned, the others are not.
C25_Witness ==
    /\ OpenYearCalled
    /\ ArchiveThenWorking.ok
    /\ result.ret.ok
    /\ Len(result.ret.val) = 1
    /\ \E i, j \in 1..Len(ArchiveThenWorking.val) :
          /\ year_of(ArchiveThenWorking.val[i]) = Some(2023)
          /\ year_of(ArchiveThenWorking.val[j]) = NoneInt
    /\ \E i \in 1..Len(ArchiveThenWorking.val) :
          /\ starts_with(ArchiveThenWorking.val[i].file, storage.v.archive)
          /\ year_of(ArchiveThenWorking.val[i]) = Some(2023)


-----------------------------------------------------------------------------
(* Moves and git (SpecSync).                                               *)

MoveOps == {"archive_project", "archive_projects_if", "unarchive_projects"}

Renames == SelectSeq(result.trace, LAMBDA e : e.kind = "rename")

\* What the call that the step makes does when git stages all it is asked to.
Restaged ==
    CASE result'.op = "archive_project" ->
            archive_project(storage.v, fs, result'.args[1], result'.args[2], TRUE)
      [] result'.op = "archive_projects_if" ->
            archive_projects_if(storage.v, fs, result'.args[1], result'.args[2],
                                result'.args[3], FALSE, result'.args[4], FALSE, TRUE)
      [] result'.op = "unarchive_projects" ->
            unarchive_projects(storage.v, fs, result'.args[1], result'.args[2],
                               result'.args[3], FALSE, TRUE)

\* C26: that git fails to stage is of no consequence to archive_project,
\* archive_projects_if and unarchive_projects: each returns what it returns
\* when git stages the paths, success where that is success, and leaves the
\* file system as it does then, every directory it moved at its new place.
C26_AdvisoryStaging ==
    [][(result'.op \in MoveOps /\ ~result'.args[Len(result'.args)]) =>
          /\ result'.ret = Restaged.ret
          /\ fs' = Restaged.fs
          /\ \A i \in 1..Len(result'.trace) :
                result'.trace[i].kind = "rename" =>
                   is_dir(fs', result'.trace[i].paths[2])]_vars

\* A move has returned success with its directories at their new places and
\* gone from the old ones although git failed to stage them.
C26_Witness ==
    /\ result.op \in MoveOps
    /\ \E i \in 1..Len(Adds) : ~Adds[i].success
    /\ result.ret.ok
    /\ Len(Renames) > 0
    /\ \A i \in 1..Len(Renames) :
          is_dir(fs, Renames[i].paths[2]) /\ ~exists(fs, Renames[i].paths[1])


\* The operations that call git where a repository is attached.
GitOps == MoveOps \cup {"delete_project_if", "open_projects_dir"}

\* What the call that the step makes returns on a storage `self`, git
\* staging all it is asked to.
Rerun(self) ==
    CASE result'.op = "archive_project" ->
            archive_project(self, fs, result'.args[1], result'.args[2], TRUE).ret
      [] result'.op = "archive_projects_if" ->
            archive_projects_if(self, fs, result'.args[1], result'.args[2],
                                result'.args[3], FALSE, result'.args[4], FALSE, TRUE).ret
      [] result'.op = "unarchive_projects" ->
            unarchive_projects(self, fs, result'.args[1], result'.args[2],
                               result'.args[3], FALSE, TRUE).ret
      [] result'.op = "delete_project_if" ->
            delete_project_if(self, fs, result'.args[1], result'.args[2], TRUE).ret
      [] result'.op = "open_projects_dir" ->
            open_projects_dir(self, fs, result'.args[1], result'.args[2], result'.args[3])

\* C27: on a storage without repository archive_project, archive_projects_if,
\* unarchive_projects, delete_project_if and open_projects_dir call git for
\* nothing, neither to stage a path nor for a status, and succeed exactly
\* where they succeed on the same storage with a repository, with no error
\* that is about the repository; get_repository fails, with
\* RepoUninitialized, if and only if no repository is attached.
C27_NoRepository ==
    [][/\ (result'.op \in GitOps /\ ~storage.v.repository) =>
             /\ \A i \in 1..Len(result'.trace) : result'.trace[i].kind # "add"
             /\ result'.ret.ok = Rerun([storage.v EXCEPT !.repository = TRUE]).ok
             /\ result'.ret.err \notin {"RepoUninitialized", "GitProcessFailed"}
             /\ (result'.op = "open_projects_dir" /\ result'.ret.ok) =>
                   \A i \in 1..Len(result'.ret.val) : result'.ret.val[i].git_status = None
       /\ result'.op = "get_repository" =>
             /\ ~result'.ret.ok <=> ~storage.v.repository
             /\ ~result'.ret.ok => result'.ret = Err("RepoUninitialized")]_vars

\* Without repository a batch has archived a project with git set to fail,
\* answered success and called git for nothing.
C27_Witness ==
    /\ ~storage.v.repository
    /\ result.op = "archive_projects_if"
    /\ ~result.args[5]
    /\ result.ret.ok
    /\ Len(Renames) > 0
    /\ Adds = <<>>


\* C28: in the calls that archive_project, archive_projects_if and
\* unarchive_projects make, every path that git is asked to stage has been
\* moved from or to by a rename that was made, and completed, before: no add
\* names a path ahead of its rename, and none a path of a project whose
\* rename failed.
C28_StagingFollowsMoves ==
    result.op \in MoveOps =>
        \A k \in 1..Len(result.trace) :
            result.trace[k].kind = "add" =>
                \A p \in Range(result.trace[k].paths) :
                    \E j \in 1..(k - 1) :
                        /\ result.trace[j].kind = "rename"
                        /\ result.trace[j].success
                        /\ p \in Range(result.trace[j].paths)

\* A batch has moved two projects: each was staged after its rename, and
\* both again after the second.
C28_Witness ==
    /\ result.op = "archive_projects_if"
    /\ Len(Renames) = 2
    /\ Len(Adds) = 3
    /\ \A i \in 1..Len(Adds) : Len(Adds[i].paths) > 0
    /\ result.trace[Len(result.trace)].kind = "add"


-----------------------------------------------------------------------------
(* The confirmation of archive_projects_if (SpecSync).                     *)

\* The step is a call of archive_projects_if.
ArchiveIfStep == result'.op = "archive_projects_if"

\* The projects that the call's search finds, or the search's failure.
FoundToArchive == search_projects_any(storage.v, fs, Working, result'.args[1], result'.args[4], FALSE)

\* The positions in the call's trace at which the closure is evaluated.
Confirms == {k \in 1..Len(result'.trace) : result'.trace[k].kind = "confirm"}

\* The closure's first answer decides for all projects found: where the
\* call succeeds, the directories it moved are those of the projects found
\* that are ready for the archive, or of all projects found if the answer
\* was yes.
OneForceForAll ==
    result'.ret.ok =>
        {result'.trace[k].paths[1] :
            k \in {j \in 1..Len(result'.trace) : result'.trace[j].kind = "rename"}}
        = {dir(FoundToArchive.val[i]) :
            i \in {j \in 1..Len(FoundToArchive.val) :
                      is_ready_for_archive(FoundToArchive.val[j]) \/ result'.args[3][1]}}

\* C29 as the specification has it: every call of archive_projects_if
\* evaluates the closure exactly once, before it moves a directory, and the
\* answer is the force flag for every project found.
C29_ConfirmedOnce ==
    [][ArchiveIfStep =>
          /\ Confirms = {1}
          /\ result'.trace[1].success = result'.args[3][1]
          /\ OneForceForAll]_vars

\* C29, amended: a call of archive_projects_if whose search succeeds
\* evaluates the closure exactly once, after the search and before it moves
\* a directory, also when nothing was found, and the answer is the force
\* flag for every project found; a call whose search fails does not evaluate
\* the closure.
C29_ConfirmedOncePerSearch ==
    [][ArchiveIfStep =>
          /\ ~FoundToArchive.ok => Confirms = {} /\ result'.ret = FoundToArchive
          /\ FoundToArchive.ok =>
                /\ Confirms = {1}
                /\ result'.trace[1].success = result'.args[3][1]
                /\ OneForceForAll]_vars

\* A batch has moved two projects, one of them not ready for the archive,
\* with a closure that said yes once and would have said no to a second
\* question.
C29_Witness ==
    /\ result.op = "archive_projects_if"
    /\ result.ret.ok
    /\ result.args[3] = <<TRUE, FALSE>>
    /\ Len(Renames) = 2
    /\ result.trace[1].kind = "confirm"
    /\ Len(SelectSeq(result.trace, LAMBDA e : e.kind = "confirm")) = 1
    /\ \E x \in fs.files :
          /\ ~x.data.ready
          /\ \E i \in 1..Len(Renames) : starts_with(x.path, Renames[i].paths[2])


-----------------------------------------------------------------------------
(* The order of the projects that are searched (SpecSort).                 *)

\* The projects of s that have an index are in nondecreasing order of it,
\* and each of them comes before every project that has none.
IndexOrdered(s) ==
    \A i, j \in 1..Len(s) :
        /\ (i < j /\ index(s[i]).some /\ index(s[j]).some) =>
              str_le(index(s[i]).v, index(s[j]).v)
        /\ (index(s[i]).some /\ ~index(s[j]).some) => i < j

\* C30 as the specification has it: the list that search_projects filters,
\* and with it the list it returns, is in nondecreasing order of the index,
\* and every project with an index comes before every project without,
\* whatever the index is.
C30_IndexOrder ==
    (SearchCalled /\ result.ret.ok) =>
        /\ IndexOrdered(SortedRecords(result.args[1], result.args[3]).val)
        /\ IndexOrdered(result.ret.val)


-----------------------------------------------------------------------------
(* open_paths with workers (SpecPar).                                      *)

\* open_paths has returned from a call in which workers opened the paths.
OpenedInParallel == result.op = "open_paths"

\* How often x is an element of the sequence s.
Count(s, x) == Cardinality({i \in 1..Len(s) : s[i] = x})

\* C31: whatever the order in which the workers open the paths, open_paths
\* returns what it returns when it opens the paths one after the other: the
\* same projects the same number of times, none lost, none twice, none that
\* is not the project of one of the paths; and it panics exactly when that
\* does.
C31_ParallelOpen ==
    OpenedInParallel =>
        LET sequential == open_paths(storage.v, fs, result.args[1], result.args[2])
        IN  /\ result.ret.ok = sequential.ok
            /\ result.ret.err = sequential.err
            /\ result.ret.ok =>
                  /\ Len(result.ret.val) = Len(sequential.val)
                  /\ \A x \in Range(result.ret.val) \cup Range(sequential.val) :
                        Count(result.ret.val, x) = Count(sequential.val, x)
                  /\ \A x \in Range(result.ret.val) :
                        \E i \in 1..Len(result.args[1]) :
                           dir(x) = result.args[1][i]

\* Three paths were opened, the third first and the first last: two of them
\* are the same project folder, whose project is returned twice, and one is
\* a folder without record file, which is dropped.
C31_Witness ==
    /\ OpenedInParallel
    /\ result.ret.ok
    /\ Len(result.args[1]) = 3
    /\ result.args[1][1] = result.args[1][3]
    /\ result.args[1][2] = storage.v.templates
    /\ Len(result.ret.val) = 2
    /\ result.ret.val[1] = result.ret.val[2]
    /\ result.trace[1].paths[1] = result.args[1][3]
    /\ result.trace[2].paths[1] = result.args[1][2]


-----------------------------------------------------------------------------
(* Batches that fail (SpecSync).                                           *)

\* The step is a call of archive_projects_if or unarchive_projects that
\* fails after its search has succeeded.
FailedBatchStep ==
    /\ result'.op \in {"archive_projects_if", "unarchive_projects"}
    /\ ~result'.ret.ok
    /\ result'.ret.err \in {"Io", "Panic"}
    /\ is_dir(fs, storage.v.working)

\* The renames the call of the step made, as pairs of source and target.
MovesMade ==
    {result'.trace[k].paths :
        k \in {j \in 1..Len(result'.trace) : result'.trace[j].kind = "rename"}}

\* C32: when archive_projects_if or unarchive_projects fails at one of the
\* projects it found, the projects it has moved before stay moved, each
\* with its files at the new place and nothing of it at the old, and all
\* other files and directories, those of the projects it has not come to
\* included, are where they were.
C32_NoRollback ==
    [][FailedBatchStep =>
          /\ \A move \in MovesMade :
                /\ ~exists(fs', move[1])
                /\ is_dir(fs', move[2])
                /\ \A x \in subtree_files(fs, move[1]) :
                      [path |-> rebase(x.path, move[1], move[2]), data |-> x.data]
                         \in fs'.files
          /\ \A x \in fs.files :
                (\A move \in MovesMade : ~starts_with(x.path, move[1])) => x \in fs'.files
          /\ \A d \in fs.dirs :
                (\A move \in MovesMade : ~starts_with(d, move[1])) => d \in fs'.dirs
          /\ \A x \in fs'.files :
                x \in fs.files \/ \E move \in MovesMade : starts_with(x.path, move[2])]_vars

\* A batch that found the same project twice and then another has failed
\* at the second: the first is in the archive, the third is where it was,
\* in the working directory.
C32_Witness ==
    /\ result.op = "archive_projects_if"
    /\ ~result.ret.ok
    /\ Len(result.args[1]) = 3
    /\ Len(Renames) = 1
    /\ is_dir(fs, Renames[1].paths[2])
    /\ ~exists(fs, Renames[1].paths[1])
    /\ \E x \in fs.files :
          /\ starts_with(x.path, storage.v.working)
          /\ contains(to_lowercase(x.path[Len(x.path) - 1]), to_lowercase(s_Party))


\* The projects that the call of unarchive_projects of the step finds in the
\* archive of the year, or the search's failure.
FoundToUnarchive ==
    search_projects_any(storage.v, fs, Archive(result'.args[1]), result'.args[2],
                        result'.args[3], FALSE)

\* The error of the first of the projects whose unarchive_project fails when
\* they are unarchived one after the other from file system f; "none" if
\* none fails.
RECURSIVE FirstUnarchiveError(_, _)
FirstUnarchiveError(f, projects) ==
    IF Len(projects) = 0 THEN "none"
    ELSE Bind(unarchive_project(storage.v, f, projects[1]), LAMBDA unarchived :
            IF ~unarchived.ret.ok THEN unarchived.ret.err
            ELSE FirstUnarchiveError(unarchived.fs, Tail(projects)))

\* C33 as the specification has it: when unarchive_project fails for one of
\* the projects that unarchive_projects found, unarchive_projects returns
\* that error to its caller, as a value.
C33_UnarchiveErrorReturned ==
    [][(/\ result'.op = "unarchive_projects"
        /\ FoundToUnarchive.ok
        /\ FirstUnarchiveError(fs, FoundToUnarchive.val) # "none")
          => result'.ret = Err(FirstUnarchiveError(fs, FoundToUnarchive.val))]_vars


-----------------------------------------------------------------------------
(* The paths that a batch returns (SpecSync).                              *)

\* The old and the new path of each directory that the call moved, in the
\* order of the moves.
OldAndNewPaths ==
    [i \in 1..(2 * Len(Renames)) |-> Renames[(i + 1) \div 2].paths[2 - (i % 2)]]

\* C34 as the specification has it: archive_projects_if and
\* unarchive_projects return the old and the new paths: for each project
\* moved, in order, its old path and then its new path, these two and no
\* more, and nothing for a project that was skipped.
C34_OldAndNewPaths ==
    (result.op \in {"archive_projects_if", "unarchive_projects"} /\ result.ret.ok) =>
        result.ret.val = OldAndNewPaths


-----------------------------------------------------------------------------
(* Folders with and without record file (SpecList).                        *)

\* The folders of the directory that the call was made for.
FoldersListed == list_project_folders(storage.v, fs, result.args[1])

\* Folder d holds an entry, not hidden, with the extension of record files.
HasRecordFile(d) == \E c \in NonHidden(d) : extension(c) = Some(file_extension)

\* The folders that the paths of s are directly in.
FoldersOf(s) == {parent(s[i]).v : i \in 1..Len(s)}

\* C35: list_empty_project_dirs returns exactly the folders of
\* list_project_folders that hold no file with the extension of record
\* files, and filter_project_files with a filter that is always true
\* returns one record file for each of the other folders, a file of that
\* folder, and for no other: each folder is in exactly one of the two.
C35_EmptyOrRecord ==
    /\ (result.op = "list_empty_project_dirs" /\ FoldersListed.ok) =>
          /\ result.ret.ok
          /\ Range(result.ret.val) = {d \in FoldersListed.val : ~HasRecordFile(d)}
          /\ Len(result.ret.val) = Cardinality(Range(result.ret.val))
          /\ LET files == filter_project_files(storage.v, fs, result.args[1],
                                               fs.dirs \cup {x.path : x \in fs.files})
             IN  /\ files.ok
                 /\ Range(result.ret.val) \cap {parent(p).v : p \in files.val} = {}
                 /\ Range(result.ret.val) \cup {parent(p).v : p \in files.val}
                       = FoldersListed.val
    /\ (result.op = "filter_project_files" /\ result.args[2] /\ FoldersListed.ok) =>
          /\ result.ret.ok
          /\ FoldersOf(result.ret.val) = {d \in FoldersListed.val : HasRecordFile(d)}
          /\ Len(result.ret.val) = Cardinality(FoldersOf(result.ret.val))
          /\ \A i \in 1..Len(result.ret.val) :
                extension(result.ret.val[i]) = Some(file_extension)
          /\ FoldersOf(result.ret.val)
                \cap list_empty_project_dirs(storage.v, fs, result.args[1]).val = {}


\* list_empty_project_dirs of all directories has returned a folder of the
\* working directory that holds no record file, where there are two
\* projects, one of them in the archive, and a hidden directory.
C35_Witness ==
    /\ result.op = "list_empty_project_dirs"
    /\ result.args[1] = All
    /\ result.ret = Ok(<<storage.v.working \o <<s_zed>> >>)
    /\ Cardinality(FoldersListed.val) = 3
    /\ is_dir(fs, storage.v.working \o << <<".">> \o s_zed >>)
    /\ \E d \in FoldersListed.val : starts_with(d, storage.v.archive)


-----------------------------------------------------------------------------
(* The layout under the operations of the engine (Spec).                   *)

\* C36: on a storage that create_dirs has set up, health_check succeeds
\* after every sequence of create_project, archive_project,
\* archive_projects_if, unarchive_project_dir, unarchive_projects and
\* delete_project_if, whatever these return: root, working directory,
\* archive and templates directory are there in every state.
C36_LayoutStays ==
    /\ health_check(storage.v, fs).ok
    /\ \A d \in {storage.v.root, storage.v.working, storage.v.archive, storage.v.templates} :
          is_dir(fs, d)

\* A project has been deleted, the last of the working directory, while
\* another is in an archive, and health_check succeeds.
C36_Witness ==
    /\ result.op = "delete_project_if"
    /\ result.args[2]
    /\ result.ret.ok
    /\ children(fs, storage.v.working) = {}
    /\ \E y \in Years : children(fs, join(storage.v.archive, <<to_string(y)>>)) # {}
    /\ health_check(storage.v, fs).ok


\* C37: on a storage that is set up, the assertion of create_archive, that
\* the archive root exists, fails in no call of create_archive, be it made
\* by the caller, by archive_project or for a project of
\* archive_projects_if, after whatever operations of the engine.
C37_ArchiveRootAsserted ==
    /\ result.ret.err # "AssertionFailed"
    /\ result.op \in {"create_archive", "archive_project"} => result.ret.err # "Panic"

\* archive_projects_if has moved two projects, calling create_archive for
\* each, on a storage in which more than two projects were created and the
\* archive of a year is there and empty.
C37_Witness ==
    /\ result.op = "archive_projects_if"
    /\ result.ret.ok
    /\ Len(Renames) = 2
    /\ next_id > 2
    /\ \E y \in Years : children(fs, join(storage.v.archive, <<to_string(y)>>)) = {}
                        /\ is_dir(fs, join(storage.v.archive, <<to_string(y)>>))


-----------------------------------------------------------------------------
(* Archiving onto an archived project (Spec).                              *)

\* The directory that the archive_project of the step moves the project to.
ArchiveTarget ==
    join(storage.v.archive,
         <<to_string(result'.args[2]), name_in_archive(result'.args[1])>>)

\* The step is an archive_project of a project whose directory is there, to
\* a place at which a project directory is.
ArchiveOntoProjectStep ==
    /\ result'.op = "archive_project"
    /\ is_dir(fs, dir(result'.args[1]))
    /\ is_dir(fs, ArchiveTarget)
    /\ get_project_file(fs, ArchiveTarget).ok

\* C38 as the specification has it: when archive/<year>/<name> is a project
\* directory already, archive_project fails, and the archived directory
\* with all in it and the directory of the project are as they were.
C38_ArchivedNotOverwritten ==
    [][ArchiveOntoProjectStep => (~result'.ret.ok /\ fs' = fs)]_vars

\* C38, amended: when archive/<year>/<name> is a project directory already
\* and is not the directory of the project itself, archive_project fails,
\* and the archived directory with all in it and the directory of the
\* project are as they were; when it is the directory of the project
\* itself, archive_project succeeds and nothing is changed either.
C38_OtherArchivedNotOverwritten ==
    [][ArchiveOntoProjectStep =>
          /\ fs' = fs
          /\ result'.ret.ok <=> ArchiveTarget = dir(result'.args[1])]_vars

\* archive_project of a project of the working directory has failed where
\* the archive of the year holds a project of the same name, and both
\* project directories are there with their record files.
C38_Witness ==
    /\ result.op = "archive_project"
    /\ ~result.ret.ok
    /\ starts_with(dir(result.args[1]), storage.v.working)
    /\ get_project_file(fs, dir(result.args[1])).ok
    /\ get_project_file(fs, join(storage.v.archive,
                                 <<to_string(result.args[2]),
                                   name_in_archive(result.args[1])>>)).ok


-----------------------------------------------------------------------------
(* What create_project leaves behind (SpecCreate).                         *)

\* The directory of the project that the create_project of the step is to
\* make.
NewProjectDir == join(storage.v.working, <<slugify(result'.args[1])>>)

\* C39 as the specification has it: create_project does all or nothing.
\* When it returns an error, whichever, the file system is as before the
\* call, with no new directory in the working directory; when it
\* succeeds, working/<slug> is a directory that holds the record file
\* <slug>.<ext> and nothing else, and all else is as before.
C39_AllOrNothing ==
    [][result'.op = "create_project" =>
          /\ ~result'.ret.ok => fs' = fs
          /\ result'.ret.ok =>
                /\ fs'.dirs = fs.dirs \cup {NewProjectDir}
                /\ NewProjectDir \notin fs.dirs
                /\ \E x \in fs'.files :
                      /\ fs'.files = fs.files \cup {x}
                      /\ x \notin fs.files
                      /\ x.path = join(NewProjectDir,
                                       <<slugify(result'.args[1]) \o <<".">> \o file_extension>>)
                      /\ result'.ret.val.file = x.path]_vars

=============================================================================
